---- MODULE Spec2Model ----
(***************************************************************************)
(* A model of the MxChess board core (src/src/board.rs), of the game loop  *)
(* that drives it (src/src/main.rs) and of the bot (src/src/bot.rs).       *)
(*                                                                         *)
(* A u64 bitboard is modelled as the set of the indices of its set bits    *)
(* (a subset of 0..63).  x << n and x >> n become shl and shr, which drop  *)
(* the bits shifted out of the word exactly as the hardware does; & | and  *)
(* & ! become \cap, \cup and \ .  A Vec<Move> is a sequence of moves, in   *)
(* the order in which the code pushes them.                                *)
(***************************************************************************)
EXTENDS Integers, Sequences, FiniteSets

(***************************************************************************)
(* Bit primitives                                                          *)
(***************************************************************************)
shl(x, n) == {s + n : s \in {t \in x : t + n <= 63}}
shr(x, n) == {s - n : s \in {t \in x : t >= n}}

\* & !0x101010101010101, & !0x8080808080808080,
\* & !0x303030303030303, & !0xc0c0c0c0c0c0c0c0
not_file_a(x) == {s \in x : s % 8 # 0}
not_file_h(x) == {s \in x : s % 8 # 7}
not_file_ab(x) == {s \in x : s % 8 > 1}
not_file_gh(x) == {s \in x : s % 8 < 6}

\* BitIterator: yields the set bits of a word lowest first; the model keeps
\* the index (trailing_zeros) of each yielded single-bit mask.
RECURSIVE BitIterator(_)
BitIterator(x) ==
    IF x = {} THEN <<>>
    ELSE LET lo == CHOOSE s \in x : \A t \in x : s <= t
         IN  <<lo>> \o BitIterator(x \ {lo})

(***************************************************************************)
(* Data model                                                              *)
(***************************************************************************)
White == "White"
Black == "Black"
Color == {White, Black}
inv(color) == IF color = White THEN Black ELSE White

MoveType == {"King", "Queen", "Rook", "Bishop", "Knight", "Pawn", "PawnLeap",
             "PawnEnPassant", "PawnQueenPromotion", "PawnRookPromotion",
             "PawnBishopPromotion", "PawnKnightPromotion", "Castle"}

WHITE_KINGS_CASTLE == "WHITE_KINGS_CASTLE"
WHITE_QUEENS_CASTLE == "WHITE_QUEENS_CASTLE"
BLACK_KINGS_CASTLE == "BLACK_KINGS_CASTLE"
BLACK_QUEENS_CASTLE == "BLACK_QUEENS_CASTLE"
ChessFlags_INIT == {WHITE_KINGS_CASTLE, WHITE_QUEENS_CASTLE,
                    BLACK_KINGS_CASTLE, BLACK_QUEENS_CASTLE}

Move(from, to, ty) == [from |-> from, to |-> to, ty |-> ty]

\* Board::new
Board_new ==
    [white_pieces |->
        [pawns |-> 8..15, rooks |-> {0, 7}, knights |-> {1, 6},
         bishops |-> {2, 5}, queens |-> {3}, king |-> {4}, all |-> 0..15],
     black_pieces |->
        [pawns |-> 48..55, rooks |-> {56, 63}, knights |-> {57, 62},
         bishops |-> {58, 61}, queens |-> {59}, king |-> {60}, all |-> 48..63],
     prev_move |-> Move(60, 60, "King"),
     flags |-> ChessFlags_INIT]

get_pieces(board, color) ==
    IF color = White THEN board.white_pieces ELSE board.black_pieces

\* A clear that forgets the pawns mask: a captured pawn stays in `pawns`.
clear_unchecked_keeps_pawns(pieces, bit_pos) ==
    [all |-> pieces.all \ bit_pos, king |-> pieces.king \ bit_pos,
     queens |-> pieces.queens \ bit_pos, rooks |-> pieces.rooks \ bit_pos,
     bishops |-> pieces.bishops \ bit_pos, knights |-> pieces.knights \ bit_pos,
     pawns |-> pieces.pawns]

\* Pieces::clear_unchecked
clear_unchecked(pieces, bit_pos) ==
    [all |-> pieces.all \ bit_pos, king |-> pieces.king \ bit_pos,
     queens |-> pieces.queens \ bit_pos, rooks |-> pieces.rooks \ bit_pos,
     bishops |-> pieces.bishops \ bit_pos, knights |-> pieces.knights \ bit_pos,
     pawns |-> pieces.pawns \ bit_pos]

\* Pieces::clear (the pieces after the call)
Pieces_clear(pieces, bit_pos) ==
    IF pieces.all \cap bit_pos # {} THEN clear_unchecked(pieces, bit_pos)
    ELSE pieces

occupied_squares(board) == board.white_pieces.all \cup board.black_pieces.all

\* Board::clear: clears the square in White's pieces, and in Black's when
\* White had nothing there (Pieces::clear returned false).
Board_clear(board, bit_pos) ==
    IF board.white_pieces.all \cap bit_pos # {}
    THEN [board EXCEPT !.white_pieces = Pieces_clear(@, bit_pos)]
    ELSE [board EXCEPT !.black_pieces = Pieces_clear(@, bit_pos)]

(***************************************************************************)
(* The eight ray directions, in the order the code lists them:             *)
(* 1 r, 2 l, 3 u, 4 d, 5 ru, 6 lu, 7 rd, 8 ld.  ray_shift is one step of   *)
(* a ray set, with the wrap mask of its direction.                         *)
(***************************************************************************)
Dirs == 1..8
ray_shift(j, x) ==
    CASE j = 1 -> not_file_a(shl(x, 1))
      [] j = 2 -> not_file_h(shr(x, 1))
      [] j = 3 -> shl(x, 8)
      [] j = 4 -> shr(x, 8)
      [] j = 5 -> not_file_a(shl(x, 9))
      [] j = 6 -> not_file_h(shl(x, 7))
      [] j = 7 -> not_file_a(shr(x, 7))
      [] j = 8 -> not_file_h(shr(x, 9))

\* The signed square distance of one step in direction j (to - from).
ray_delta(j) ==
    CASE j = 1 -> 1 [] j = 2 -> -1 [] j = 3 -> 8 [] j = 4 -> -8
      [] j = 5 -> 9 [] j = 6 -> 7 [] j = 7 -> -7 [] j = 8 -> -9

king_steps(king) ==
    not_file_a(shl(king, 1) \cup shl(king, 9) \cup shr(king, 7))
    \cup not_file_h(shr(king, 1) \cup shr(king, 9) \cup shl(king, 7))
    \cup shl(king, 8) \cup shr(king, 8)

\* Knight steps whose two-file jumps are not masked: they wrap around the
\* a/h edge of the board.
knight_steps_wrapping(knight) ==
    not_file_a(shl(knight, 17) \cup shr(knight, 15))
    \cup not_file_h(shl(knight, 15) \cup shr(knight, 17))
    \cup shl(knight, 10) \cup shr(knight, 6)
    \cup shl(knight, 6) \cup shr(knight, 10)

knight_steps(knight) ==
    not_file_a(shl(knight, 17) \cup shr(knight, 15))
    \cup not_file_h(shl(knight, 15) \cup shr(knight, 17))
    \cup not_file_ab(shl(knight, 10) \cup shr(knight, 6))
    \cup not_file_gh(shl(knight, 6) \cup shr(knight, 10))

(***************************************************************************)
(* Board::check_attack                                                     *)
(***************************************************************************)
\* A flooding loop whose rays run on through occupied squares.
RECURSIVE attack_flood_unblocked(_, _, _)
attack_flood_unblocked(rays, all, attack) ==
    LET move_all == UNION {rays[j] : j \in Dirs}
    IN  IF move_all = {} THEN attack
        ELSE attack_flood_unblocked([j \in Dirs |-> ray_shift(j, rays[j])],
                                    all, attack \cup move_all)

\* The number of turns of the flooding `loop` in which move_all is not 0.
RECURSIVE flood_steps(_, _)
flood_steps(rays, all) ==
    IF UNION {rays[j] : j \in Dirs} = {} THEN 0
    ELSE 1 + flood_steps([j \in Dirs |-> ray_shift(j, rays[j] \ all)], all)

RECURSIVE attack_flood(_, _, _)
attack_flood(rays, all, attack) ==
    LET move_all == UNION {rays[j] : j \in Dirs}
    IN  IF move_all = {} THEN attack
        ELSE attack_flood([j \in Dirs |-> ray_shift(j, rays[j] \ all)],
                          all, attack \cup move_all)

\* An attack set whose rays stop at the opposing king like at any piece.
check_attack_king_blocks(board, color) ==
    LET pieces == get_pieces(board, color)
        pawn_attack ==
            IF color = White
            THEN not_file_a(shl(pieces.pawns, 9)) \cup not_file_h(shl(pieces.pawns, 7))
            ELSE not_file_h(shr(pieces.pawns, 9)) \cup not_file_a(shr(pieces.pawns, 7))
        all == board.white_pieces.all \cup board.black_pieces.all
        hv == pieces.queens \cup pieces.rooks
        dg == pieces.queens \cup pieces.bishops
        rays == [j \in Dirs |-> ray_shift(j, IF j <= 4 THEN hv ELSE dg)]
    IN  attack_flood(rays, all, pawn_attack \cup king_steps(pieces.king))
            \cup knight_steps(pieces.knights)

check_attack(board, color) ==
    LET pieces == get_pieces(board, color)
        pawn_attack ==
            IF color = White
            THEN not_file_a(shl(pieces.pawns, 9)) \cup not_file_h(shl(pieces.pawns, 7))
            ELSE not_file_h(shr(pieces.pawns, 9)) \cup not_file_a(shr(pieces.pawns, 7))
        all == (board.white_pieces.all \cup board.black_pieces.all)
                   \ get_pieces(board, inv(color)).king
        hv == pieces.queens \cup pieces.rooks
        dg == pieces.queens \cup pieces.bishops
        rays == [j \in Dirs |-> ray_shift(j, IF j <= 4 THEN hv ELSE dg)]
    IN  attack_flood(rays, all, pawn_attack \cup king_steps(pieces.king))
            \cup knight_steps(pieces.knights)

(***************************************************************************)
(* Board::find_pins                                                        *)
(***************************************************************************)
\* A ray walk that lets a second friendly piece replace the first as the
\* pin candidate instead of ending the ray.
RECURSIVE pin_ray_last_friend(_, _, _, _, _, _)
pin_ray_last_friend(j, pos0, pin0, pinners, pieces_all, other_all) ==
    LET pos == ray_shift(j, pos0)
        pin == IF pos \cap pieces_all # {} THEN pos ELSE pin0
    IN  IF pinners \cap pos # {} THEN pin
        ELSE IF pos = {} \/ pos \cap other_all # {} THEN {}
        ELSE pin_ray_last_friend(j, pos, pin, pinners, pieces_all, other_all)
RECURSIVE pin_ray(_, _, _, _, _, _)
pin_ray(j, pos0, pin0, pinners, pieces_all, other_all) ==
    LET pos == ray_shift(j, pos0)
        second == pos \cap pieces_all # {} /\ pin0 # {}
        pin == IF pos \cap pieces_all # {} THEN pos ELSE pin0
    IN  IF second THEN {}
        ELSE IF pinners \cap pos # {} THEN pin
        ELSE IF pos = {} \/ pos \cap other_all # {} THEN {}
        ELSE pin_ray(j, pos, pin, pinners, pieces_all, other_all)

find_pins(board, color) ==
    LET king == get_pieces(board, color).king
        pieces_all == get_pieces(board, color).all
        other == get_pieces(board, inv(color))
        other_hor_ver_pinners == other.rooks \cup other.queens
        other_diagonal_pinners == other.bishops \cup other.queens
    IN  UNION {pin_ray(j, king, {},
                       IF j <= 4 THEN other_hor_ver_pinners
                       ELSE other_diagonal_pinners,
                       pieces_all, other.all) : j \in Dirs}

(***************************************************************************)
(* Board::perform_move                                                     *)
(***************************************************************************)
\* The piece-kind mask a move kind takes the piece from, and the one it
\* puts the piece into (they differ for promotions only).
mask_from(ty) ==
    CASE ty = "Queen" -> "queens" [] ty = "Rook" -> "rooks"
      [] ty = "Bishop" -> "bishops" [] ty = "Knight" -> "knights"
      [] ty \in {"Pawn", "PawnLeap", "PawnEnPassant", "PawnQueenPromotion",
                 "PawnRookPromotion", "PawnBishopPromotion",
                 "PawnKnightPromotion"} -> "pawns"
\* A target mask that turns every promotion into a queen.
mask_to_always_queen(ty) ==
    CASE ty \in {"Queen", "PawnQueenPromotion", "PawnRookPromotion",
                 "PawnBishopPromotion", "PawnKnightPromotion"} -> "queens"
      [] ty = "Rook" -> "rooks"
      [] ty = "Bishop" -> "bishops"
      [] ty = "Knight" -> "knights"
      [] ty \in {"Pawn", "PawnLeap", "PawnEnPassant"} -> "pawns"
mask_to(ty) ==
    CASE ty \in {"Queen", "PawnQueenPromotion"} -> "queens"
      [] ty \in {"Rook", "PawnRookPromotion"} -> "rooks"
      [] ty \in {"Bishop", "PawnBishopPromotion"} -> "bishops"
      [] ty \in {"Knight", "PawnKnightPromotion"} -> "knights"
      [] ty \in {"Pawn", "PawnLeap", "PawnEnPassant"} -> "pawns"

\* A move_piece whose en passant arm takes the captured pawn out of the
\* `pawns` mask only and leaves it in `all`.
move_piece_en_passant_keeps_all(mine, theirs, white, mv) ==
    LET from == {mv.from}
        to == {mv.to}
    IN  CASE mv.ty = "King" ->
               [mine |-> [mine EXCEPT !.king = to],
                theirs |-> Pieces_clear(theirs, to)]
          [] mv.ty = "PawnLeap" ->
               [mine |-> [mine EXCEPT !.pawns = (@ \ from) \cup to],
                theirs |-> theirs]
          [] mv.ty = "PawnEnPassant" ->
               LET taken == IF white THEN {mv.to - 8} ELSE {mv.to + 8}
               IN  [mine |-> [mine EXCEPT !.pawns = (@ \ from) \cup to],
                    theirs |-> [theirs EXCEPT !.pawns = @ \ taken]]
          [] OTHER ->
               LET lifted == [mine EXCEPT ![mask_from(mv.ty)] = @ \ from]
               IN  [mine |-> [lifted EXCEPT ![mask_to(mv.ty)] = @ \cup to],
                    theirs |-> Pieces_clear(theirs, to)]

\* The match on mv.ty for every kind but Castle: the mover's and the other
\* side's pieces after it.  `mine` already has `all` updated.
move_piece(mine, theirs, white, mv) ==
    LET from == {mv.from}
        to == {mv.to}
    IN  CASE mv.ty = "King" ->
               [mine |-> [mine EXCEPT !.king = to],
                theirs |-> Pieces_clear(theirs, to)]
          [] mv.ty = "PawnLeap" ->
               [mine |-> [mine EXCEPT !.pawns = (@ \ from) \cup to],
                theirs |-> theirs]
          [] mv.ty = "PawnEnPassant" ->
               LET taken == IF white THEN {mv.to - 8} ELSE {mv.to + 8}
               IN  [mine |-> [mine EXCEPT !.pawns = (@ \ from) \cup to],
                    theirs |-> [theirs EXCEPT !.all = @ \ taken,
                                              !.pawns = @ \ taken]]
          [] OTHER ->
               LET lifted == [mine EXCEPT ![mask_from(mv.ty)] = @ \ from]
               IN  [mine |-> [lifted EXCEPT ![mask_to(mv.ty)] = @ \cup to],
                    theirs |-> Pieces_clear(theirs, to)]

\* The match on mv.to of MoveType::Castle; any other destination panics
\* (no arm of the CASE applies).
castle_pieces(w, b, mv) ==
    CASE mv.to = 2 ->
           [w |-> [w EXCEPT !.king = {2}, !.all = (@ \ {0}) \cup {3},
                            !.rooks = (@ \ {0}) \cup {3}],
            b |-> b]
      [] mv.to = 6 ->
           [w |-> [w EXCEPT !.king = {6}, !.all = (@ \ {7}) \cup {5},
                            !.rooks = (@ \ {7}) \cup {5}],
            b |-> b]
      [] mv.to = 58 ->
           [w |-> w,
            b |-> [b EXCEPT !.king = {58}, !.all = (@ \ {56}) \cup {59},
                            !.rooks = (@ \ {56}) \cup {59}]]
      [] mv.to = 62 ->
           [w |-> w,
            b |-> [b EXCEPT !.king = {62}, !.all = (@ \ {63}) \cup {61},
                            !.rooks = (@ \ {63}) \cup {61}]]

\* The flags the six self.flags.remove(..) calls take away.
flags_removed(w, b) ==
    (IF w.king = {4} THEN {} ELSE {WHITE_KINGS_CASTLE, WHITE_QUEENS_CASTLE})
    \cup (IF b.king = {60} THEN {} ELSE {WHITE_KINGS_CASTLE, WHITE_QUEENS_CASTLE})
    \cup (IF 0 \in w.rooks THEN {} ELSE {WHITE_QUEENS_CASTLE})
    \cup (IF 7 \in w.rooks THEN {} ELSE {WHITE_KINGS_CASTLE})
    \cup (IF 56 \in w.rooks THEN {} ELSE {BLACK_QUEENS_CASTLE})
    \cup (IF 63 \in w.rooks THEN {} ELSE {BLACK_KINGS_CASTLE})

\* A flag update that recomputes the rights from the position alone, so a
\* rook that returns to its corner gets its right back.
update_flags_from_position(flags, w, b) == ChessFlags_INIT \ flags_removed(w, b)
\* The flag update at the end of perform_move.
update_flags(flags, w, b) == flags \ flags_removed(w, b)

perform_move(board, mv) ==
    LET white == mv.from \in board.white_pieces.all
        w0 == IF white
              THEN [board.white_pieces EXCEPT !.all = (@ \ {mv.from}) \cup {mv.to}]
              ELSE board.white_pieces
        b0 == IF white
              THEN board.black_pieces
              ELSE [board.black_pieces EXCEPT !.all = (@ \ {mv.from}) \cup {mv.to}]
        wb == IF mv.ty = "Castle" THEN castle_pieces(w0, b0, mv)
              ELSE IF white
              THEN LET r == move_piece(w0, b0, TRUE, mv)
                   IN  [w |-> r.mine, b |-> r.theirs]
              ELSE LET r == move_piece(b0, w0, FALSE, mv)
                   IN  [w |-> r.theirs, b |-> r.mine]
    IN  [white_pieces |-> wb.w,
         black_pieces |-> wb.b,
         prev_move |-> mv,
         flags |-> update_flags(board.flags, wb.w, wb.b)]

(***************************************************************************)
(* Board::is_legal                                                         *)
(***************************************************************************)
\* One inner `loop` of the Queen, Rook and Bishop arms: does the ray from
\* `step0` in direction j reach to_square?
RECURSIVE ray_reaches(_, _, _, _, _)
ray_reaches(j, step0, to_square, other_all, pieces_all) ==
    LET step == ray_shift(j, step0 \ other_all) \ pieces_all
    IN  IF step = {} THEN FALSE
        ELSE IF step = to_square THEN TRUE
        ELSE ray_reaches(j, step, to_square, other_all, pieces_all)

slider_reaches(board, color, piece, dirs, mv) ==
    /\ piece # {}
    /\ \E j \in dirs :
          ray_reaches(j, piece, {mv.to}, get_pieces(board, inv(color)).all,
                      get_pieces(board, color).all)

\* The squares a pawn of `color` on `pawn` may move to with a Pawn or
\* promotion move: one step ahead if empty, or a diagonal capture.
pawn_targets(board, color, pawn) ==
    LET all == board.white_pieces.all \cup board.black_pieces.all
    IN  IF color = White
        THEN (shl(pawn, 8) \ all)
             \cup ((not_file_h(shl(pawn, 7)) \cup not_file_a(shl(pawn, 9)))
                   \cap board.black_pieces.all)
        ELSE (shr(pawn, 8) \ all)
             \cup ((not_file_h(shr(pawn, 9)) \cup not_file_a(shr(pawn, 7)))
                   \cap board.white_pieces.all)

\* The diagonal steps of a pawn, as the PawnEnPassant arm computes them.
pawn_diagonals(color, pawn) ==
    IF color = White
    THEN not_file_h(shl(pawn, 7)) \cup not_file_a(shl(pawn, 9))
    ELSE not_file_h(shr(pawn, 9)) \cup not_file_a(shr(pawn, 7))

\* MoveType::Castle of is_legal: decided without the copy-and-apply check.
is_legal_castle(board, color, mv) ==
    LET all == board.white_pieces.all \cup board.black_pieces.all
    IN  CASE mv.to = 2 ->
               /\ color # Black
               /\ all \cap {1, 2, 3} = {}
               /\ WHITE_QUEENS_CASTLE \in board.flags
               /\ check_attack(board, Black) \cap {2, 3, 4} = {}
          [] mv.to = 6 ->
               /\ color # Black
               /\ all \cap {5, 6} = {}
               /\ WHITE_KINGS_CASTLE \in board.flags
               /\ check_attack(board, Black) \cap {4, 5, 6} = {}
          [] mv.to = 58 ->
               /\ color # White
               /\ all \cap {57, 58, 59} = {}
               /\ BLACK_QUEENS_CASTLE \in board.flags
               /\ check_attack(board, White) \cap {58, 59, 60} = {}
          [] mv.to = 62 ->
               /\ color # White
               /\ all \cap {61, 62} = {}
               /\ BLACK_KINGS_CASTLE \in board.flags
               /\ check_attack(board, Black) \cap {60, 61, 62} = {}
          [] OTHER -> FALSE

\* The match on mv.ty before the copy-and-apply check: FALSE where the
\* code returns false.
is_legal_shape(board, color, mv) ==
    LET pieces == get_pieces(board, color)
        pieces_all == pieces.all
        all == board.white_pieces.all \cup board.black_pieces.all
        from == {mv.from}
    IN  CASE mv.ty = "King" ->
               mv.to \in king_steps(pieces.king \cap from) \ pieces_all
          [] mv.ty = "Queen" ->
               slider_reaches(board, color, pieces.queens \cap from, 1..8, mv)
          [] mv.ty = "Rook" ->
               slider_reaches(board, color, pieces.rooks \cap from, 1..4, mv)
          [] mv.ty = "Bishop" ->
               slider_reaches(board, color, pieces.bishops \cap from, 5..8, mv)
          [] mv.ty = "Knight" ->
               mv.to \in knight_steps(pieces.knights \cap from) \ pieces_all
          [] mv.ty \in {"Pawn", "PawnQueenPromotion", "PawnRookPromotion",
                        "PawnBishopPromotion", "PawnKnightPromotion"} ->
               /\ mv.to \in pawn_targets(board, color, pieces.pawns \cap from)
               /\ mv.ty # "Pawn" =>
                     IF color = White THEN mv.to \in 56..63 ELSE mv.to \in 0..7
          [] mv.ty = "PawnLeap" ->
               IF color = White
               THEN mv.to \in (shl(pieces.pawns \cap from, 16) \ all) \cap 24..31
               ELSE mv.to \in (shr(pieces.pawns \cap from, 16) \ all) \cap 32..39
          [] mv.ty = "PawnEnPassant" ->
               /\ board.prev_move.ty = "PawnLeap"
               /\ mv.to = IF color = White THEN board.prev_move.to + 8
                          ELSE board.prev_move.to - 8
               /\ mv.to \in pawn_diagonals(color, pieces.pawns \cap from)

is_legal(board, color, mv) ==
    IF mv.ty = "Castle" THEN is_legal_castle(board, color, mv)
    ELSE /\ is_legal_shape(board, color, mv)
         /\ LET after == perform_move(board, mv)
            IN  check_attack(after, inv(color))
                    \cap get_pieces(after, color).king = {}

(***************************************************************************)
(* Board::moves and Board::capture_moves                                   *)
(***************************************************************************)
\* The push_move closure: TRUE when it pushes mv onto the list.
push_move(board, color, check, pins, mv, dont_check_king_safety) ==
    \/ dont_check_king_safety
    \/ (~check /\ mv.from \notin pins)
    \/ LET after == perform_move(board, mv)
       IN  check_attack(after, inv(color)) \cap get_pieces(after, color).king = {}

\* King steps that are not filtered by the attack set.
king_moves_unfiltered(board, color, other_attack, captures) ==
    LET pieces == get_pieces(board, color)
        other_all == get_pieces(board, inv(color)).all
        steps == king_steps(pieces.king)
        targets == IF captures THEN steps \cap other_all ELSE steps \ pieces.all
        bits == BitIterator(targets)
    IN  [k \in 1..Len(bits) |->
            Move(CHOOSE s \in pieces.king : TRUE, bits[k], "King")]

\* The moves one `for bit in BitIterator(targets)` loop hands to push_move:
\* the origin is `back` squares below the destination.
bit_moves(targets, back, ty, promotion_rank) ==
    LET bits == BitIterator(targets)
    IN  [k \in 1..Len(bits) |->
            Move(bits[k] - back, bits[k],
                 IF bits[k] \in promotion_rank THEN "PawnQueenPromotion" ELSE ty)]

castle_moves(board, color, other_attack) ==
    LET all == board.white_pieces.all \cup board.black_pieces.all
    IN  IF color = White
        THEN (IF /\ WHITE_KINGS_CASTLE \in board.flags
                 /\ other_attack \cap {4, 5, 6} = {}
                 /\ all \cap {5, 6} = {}
              THEN <<Move(4, 6, "Castle")>> ELSE <<>>)
             \o (IF /\ WHITE_QUEENS_CASTLE \in board.flags
                    /\ other_attack \cap {2, 3, 4} = {}
                    /\ all \cap {1, 2, 3} = {}
                 THEN <<Move(4, 2, "Castle")>> ELSE <<>>)
        ELSE (IF /\ BLACK_KINGS_CASTLE \in board.flags
                 /\ other_attack \cap {60, 61, 62} = {}
              THEN <<Move(4, 6, "Castle")>> ELSE <<>>)
             \o (IF /\ BLACK_QUEENS_CASTLE \in board.flags
                    /\ other_attack \cap {58, 59, 60} = {}
                 THEN <<Move(4, 2, "Castle")>> ELSE <<>>)

\* An en passant generator that does not look at the kind of the previous
\* move.
en_passant_moves_after_any_move(board, color) ==
    LET pawns == get_pieces(board, color).pawns
        prev_to == board.prev_move.to
        to == IF color = White THEN prev_to + 8 ELSE prev_to - 8
    IN  (IF not_file_a({prev_to + 1} \cap pawns) # {}
         THEN <<Move(prev_to + 1, to, "PawnEnPassant")>> ELSE <<>>)
        \o (IF not_file_h({prev_to - 1} \cap pawns) # {}
            THEN <<Move(prev_to - 1, to, "PawnEnPassant")>> ELSE <<>>)
en_passant_moves(board, color) ==
    LET pawns == get_pieces(board, color).pawns
        prev_to == board.prev_move.to
        to == IF color = White THEN prev_to + 8 ELSE prev_to - 8
    IN  IF board.prev_move.ty # "PawnLeap" THEN <<>>
        ELSE (IF not_file_a({prev_to + 1} \cap pawns) # {}
              THEN <<Move(prev_to + 1, to, "PawnEnPassant")>> ELSE <<>>)
             \o (IF not_file_h({prev_to - 1} \cap pawns) # {}
                 THEN <<Move(prev_to - 1, to, "PawnEnPassant")>> ELSE <<>>)

\* A pawn push generator that lets a pawn leap from any rank.
pawn_push_moves_leap_anywhere(board, color) ==
    LET pawns == get_pieces(board, color).pawns
        all == board.white_pieces.all \cup board.black_pieces.all
    IN  IF color = White
        THEN LET pawn_fwd == shl(pawns, 8) \ all
             IN  bit_moves(pawn_fwd, 8, "Pawn", 56..63)
                 \o bit_moves(shl(pawn_fwd, 8) \ all, 16, "PawnLeap", {})
        ELSE LET pawn_fwd == shr(pawns, 8) \ all
             IN  bit_moves(pawn_fwd, -8, "Pawn", 0..7)
                 \o bit_moves(shr(pawn_fwd, 8) \ all, -16, "PawnLeap", {})

pawn_push_moves(board, color) ==
    LET pawns == get_pieces(board, color).pawns
        all == board.white_pieces.all \cup board.black_pieces.all
    IN  IF color = White
        THEN LET pawn_fwd == shl(pawns, 8) \ all
             IN  bit_moves(pawn_fwd, 8, "Pawn", 56..63)
                 \o bit_moves((shl(pawn_fwd, 8) \ all) \cap 24..31, 16, "PawnLeap", {})
        ELSE LET pawn_fwd == shr(pawns, 8) \ all
             IN  bit_moves(pawn_fwd, -8, "Pawn", 0..7)
                 \o bit_moves((shr(pawn_fwd, 8) \ all) \cap 32..39, -16, "PawnLeap", {})

pawn_capture_moves(board, color) ==
    LET pawns == get_pieces(board, color).pawns
        other_all == get_pieces(board, inv(color)).all
    IN  IF color = White
        THEN bit_moves(not_file_a(shl(pawns, 9)) \cap other_all, 9, "Pawn", 56..63)
             \o bit_moves(not_file_h(shl(pawns, 7)) \cap other_all, 7, "Pawn", 56..63)
        ELSE bit_moves(not_file_h(shr(pawns, 9)) \cap other_all, -9, "Pawn", 0..7)
             \o bit_moves(not_file_a(shr(pawns, 7)) \cap other_all, -7, "Pawn", 0..7)

\* The king steps are cut down to !pieces.all in moves and to other_all in
\* capture_moves (captures = TRUE).
king_moves(board, color, other_attack, captures) ==
    LET pieces == get_pieces(board, color)
        other_all == get_pieces(board, inv(color)).all
        steps == king_steps(pieces.king)
        targets == (IF captures THEN steps \cap other_all ELSE steps \ pieces.all)
                       \ other_attack
        bits == BitIterator(targets)
    IN  [k \in 1..Len(bits) |->
            Move(CHOOSE s \in pieces.king : TRUE, bits[k], "King")]

\* The moves of one ray set at iteration i of the slider loop.
ray_moves(j, i, reached, queens) ==
    LET bits == BitIterator(reached)
    IN  [k \in 1..Len(bits) |->
            LET from == bits[k] - i * ray_delta(j)
            IN  Move(from, bits[k],
                     IF from \in queens THEN "Queen"
                     ELSE IF j <= 4 THEN "Rook" ELSE "Bishop")]

RECURSIVE slider_loop(_, _, _, _, _)
slider_loop(i, rays0, pieces, other_all, captures) ==
    IF i > 7 THEN <<>>
    ELSE LET rays == [j \in Dirs |->
                         ray_shift(j, rays0[j] \ other_all) \ pieces.all]
             R(j) == ray_moves(j, i,
                               IF captures THEN rays[j] \cap other_all ELSE rays[j],
                               pieces.queens)
         IN  IF UNION {rays[j] : j \in Dirs} = {} THEN <<>>
             ELSE R(1) \o R(2) \o R(3) \o R(4) \o R(5) \o R(6) \o R(7) \o R(8)
                  \o slider_loop(i + 1, rays, pieces, other_all, captures)

slider_moves(board, color, captures) ==
    LET pieces == get_pieces(board, color)
        hv == pieces.queens \cup pieces.rooks
        dg == pieces.queens \cup pieces.bishops
    IN  slider_loop(1, [j \in Dirs |-> IF j <= 4 THEN hv ELSE dg], pieces,
                    get_pieces(board, inv(color)).all, captures)

RECURSIVE knight_loop(_, _, _, _)
knight_loop(knights, pieces_all, other_all, captures) ==
    IF knights = <<>> THEN <<>>
    ELSE LET from == Head(knights)
             steps == knight_steps({from})
             bits == BitIterator(IF captures THEN steps \cap other_all
                                 ELSE steps \ pieces_all)
         IN  [k \in 1..Len(bits) |-> Move(from, bits[k], "Knight")]
             \o knight_loop(Tail(knights), pieces_all, other_all, captures)

knight_moves(board, color, captures) ==
    knight_loop(BitIterator(get_pieces(board, color).knights),
                get_pieces(board, color).all,
                get_pieces(board, inv(color)).all, captures)

moves(board, color) ==
    LET pins == find_pins(board, color)
        other_attack == check_attack(board, inv(color))
        check == get_pieces(board, color).king \cap other_attack # {}
        pushed(mv) == push_move(board, color, check, pins, mv, FALSE)
        pushed_unchecked(mv) == push_move(board, color, check, pins, mv, TRUE)
    IN  SelectSeq(castle_moves(board, color, other_attack), pushed_unchecked)
        \o SelectSeq(en_passant_moves(board, color)
                         \o pawn_push_moves(board, color)
                         \o pawn_capture_moves(board, color), pushed)
        \o SelectSeq(king_moves(board, color, other_attack, FALSE), pushed_unchecked)
        \o SelectSeq(slider_moves(board, color, FALSE)
                         \o knight_moves(board, color, FALSE), pushed)

capture_moves(board, color) ==
    LET pins == find_pins(board, color)
        other_attack == check_attack(board, inv(color))
        check == get_pieces(board, color).king \cap other_attack # {}
        pushed(mv) == push_move(board, color, check, pins, mv, FALSE)
        pushed_unchecked(mv) == push_move(board, color, check, pins, mv, TRUE)
    IN  SelectSeq(en_passant_moves(board, color)
                      \o pawn_capture_moves(board, color), pushed)
        \o SelectSeq(king_moves(board, color, other_attack, TRUE), pushed_unchecked)
        \o SelectSeq(slider_moves(board, color, TRUE)
                         \o knight_moves(board, color, TRUE), pushed)

(***************************************************************************)
(* Board::get_legal_move                                                   *)
(***************************************************************************)
\* Option::None
None == [from |-> -1, to |-> -1, ty |-> "None"]

\* PieceType::from(u8); a code above 5 panics (no arm of the CASE applies).
PieceType_from(n) ==
    CASE n = 0 -> "King" [] n = 1 -> "Queen" [] n = 2 -> "Rook"
      [] n = 3 -> "Bishop" [] n = 4 -> "Knight" [] n = 5 -> "Pawn"

\* Pieces::get_at: the bitwise or of the codes of the kind masks that hold
\* the square (King's code is 0), or None when `all` does not hold it.
Pieces_get_at(pieces, sq) ==
    LET codes == (IF sq \in pieces.queens THEN {1} ELSE {})
                 \cup (IF sq \in pieces.rooks THEN {2} ELSE {})
                 \cup (IF sq \in pieces.bishops THEN {3} ELSE {})
                 \cup (IF sq \in pieces.knights THEN {4} ELSE {})
                 \cup (IF sq \in pieces.pawns THEN {5} ELSE {})
        bit(n) == IF \E k \in codes : (k \div n) % 2 = 1 THEN n ELSE 0
    IN  IF sq \in pieces.all THEN PieceType_from(bit(1) + bit(2) + bit(4))
        ELSE "None"

\* Board::get_at: White's piece on the square, else Black's, else None.
Board_get_at(board, sq) ==
    IF Pieces_get_at(board.white_pieces, sq) # "None"
    THEN [color |-> White, ty |-> Pieces_get_at(board.white_pieces, sq)]
    ELSE IF Pieces_get_at(board.black_pieces, sq) # "None"
    THEN [color |-> Black, ty |-> Pieces_get_at(board.black_pieces, sq)]
    ELSE [color |-> "None", ty |-> "None"]

\* The move kind get_legal_move infers from the piece and the two squares.
inferred_type(board, color, piece_ty, from, to) ==
    LET diff == IF from <= to THEN to - from ELSE from - to
    IN  CASE piece_ty = "King" -> IF diff = 2 THEN "Castle" ELSE "King"
          [] piece_ty \in {"Queen", "Rook", "Bishop", "Knight"} -> piece_ty
          [] piece_ty = "Pawn" ->
               IF diff = 16 THEN "PawnLeap"
               ELSE IF diff = 8 \/ to \in get_pieces(board, inv(color)).all
               THEN (IF to \notin 8..55 THEN "PawnQueenPromotion" ELSE "Pawn")
               ELSE "PawnEnPassant"

\* A get_legal_move that returns the inferred move without asking is_legal.
get_legal_move_unchecked(board, color, from, to) ==
    LET piece == Board_get_at(board, from)
    IN  IF piece.ty = "None" \/ piece.color # color THEN None
        ELSE Move(from, to, inferred_type(board, color, piece.ty, from, to))

get_legal_move(board, color, from, to) ==
    LET piece == Board_get_at(board, from)
        mv == Move(from, to, inferred_type(board, color, piece.ty, from, to))
    IN  IF piece.ty = "None" THEN None
        ELSE IF piece.color # color THEN None
        ELSE IF is_legal(board, color, mv) THEN mv
        ELSE None

Range(seq) == {seq[k] : k \in 1..Len(seq)}

(***************************************************************************)
(* The bot (src/src/bot.rs).  A call either returns a value or panics (an  *)
(* `unreachable!()` arm is reached); the model writes the two outcomes as  *)
(* Returned(v) and Panicked.  No value the search computes leaves the      *)
(* range -i32::MAX .. i32::MAX, so i32 arithmetic never wraps.             *)
(*                                                                         *)
(* sort_by_key and sort_unstable_by_key are modelled by one stable sort.   *)
(* The order sort_unstable_by_key gives to moves of equal key is not       *)
(* specified; inside the search it decides which branch is tried first,    *)
(* which changes the value of a node only when some branch panics.         *)
(*                                                                         *)
(* The recursion of the search is modelled by an explicit call stack (see  *)
(* the search process below): eval_board_rec and eval_captures_board_rec   *)
(* give a call up to its loop, loop_call and loop_resume one turn of the   *)
(* loop.                                                                   *)
(***************************************************************************)
DEPTH == 6
i32_MAX == 2147483647

Returned(v) == [panicked |-> FALSE, value |-> v]
Panicked == [panicked |-> TRUE, value |-> 0]

max(a, b) == IF a >= b THEN a ELSE b

pieces_value(pieces) ==
    Cardinality(pieces.pawns)
        + 3 * (Cardinality(pieces.knights) + Cardinality(pieces.bishops))
        + 5 * Cardinality(pieces.rooks)
        + 9 * Cardinality(pieces.queens)

guess_white_win(b) ==
    100 * (pieces_value(b.white_pieces) - pieces_value(b.black_pieces))

eval_move(mv, b, attack) ==
    LET ty == Board_get_at(b, mv.to).ty
        gain == CASE ty = "Queen" -> 9
                  [] ty = "Rook" -> 5
                  [] ty \in {"Bishop", "Knight"} -> 3
                  [] ty = "Pawn" -> 1
                  [] OTHER -> 0
        risk == CASE mv.ty \in {"Queen", "PawnQueenPromotion",
                                "PawnRookPromotion", "PawnBishopPromotion",
                                "PawnKnightPromotion"} -> 9
                  [] mv.ty = "Rook" -> 5
                  [] mv.ty \in {"Bishop", "Knight"} -> 3
                  [] OTHER -> 1
    IN  IF ty = "King" THEN Panicked
        ELSE IF mv.to \notin attack THEN Returned(gain)
        ELSE IF mv.ty \in {"King", "Castle"} THEN Panicked
        ELSE Returned(gain - (9 * risk) \div 8)

\* The moves of list in the order of their keys, given the outcome of
\* eval_move for the move of each index: the move of index k goes behind
\* the moves of smaller key and the earlier moves of equal key.
RECURSIVE in_places(_, _, _)
in_places(list, placed, r) ==
    IF r = 0 THEN <<>>
    ELSE Append(in_places(list, placed, r - 1),
                list[(CHOOSE q \in placed : q[1] = r)[2]])

sorted_by_key(list, evals) ==
    IF \E p \in evals : p[2].panicked THEN Panicked
    ELSE Returned(in_places(list,
             {<<1 + Cardinality({q \in evals :
                        \/ -q[2].value < -p[2].value
                        \/ q[2].value = p[2].value /\ q[1] < p[1]}), p[1]>> :
                 p \in evals},
             Len(list)))

\* moves.sort_by_key(|mv| -self.eval_move(mv, board, attack)): a list of
\* fewer than two moves is returned without a call of the key function;
\* otherwise the key of every move is computed.
sort_by_key(list, b, attack) ==
    IF Len(list) < 2 THEN Returned(list)
    ELSE sorted_by_key(list, {<<k, eval_move(list[k], b, attack)>> :
                                 k \in 1..Len(list)})

\* A call that has returned r, and a call that has reached its
\* `for mv in moves` loop (depth is 0 for eval_captures_board_rec, whose
\* calls alone carry pos).
Finished(r) == [done |-> TRUE, result |-> r]
InLoop(b, c, depth, pos, alpha, beta, list) ==
    [done |-> FALSE, board |-> b, color |-> c, depth |-> depth, pos |-> pos,
     alpha |-> alpha, beta |-> beta, moves |-> list, next |-> 1,
     value |-> -i32_MAX]

\* `moves.sort_unstable_by_key(..)` and the entry of the loop.
enter_loop(b, c, depth, pos, alpha, beta, sorted) ==
    IF sorted.panicked THEN Finished(Panicked)
    ELSE InLoop(b, c, depth, pos, alpha, beta, sorted.value)

\* eval_captures_board_rec up to its loop, given its filtered list of
\* captures and board.check_attack(color.inv()).
eval_captures_from(b, pos, c, alpha, beta, list, attack) ==
    IF list = <<>>
    THEN IF attack \cap get_pieces(b, c).king = {}
         THEN Finished(Returned(IF c = White THEN guess_white_win(b)
                                ELSE -guess_white_win(b)))
         ELSE Finished(Returned(-i32_MAX))
    ELSE enter_loop(b, c, 0, pos, alpha, beta, sort_by_key(list, b, attack))

\* A quiescence node that goes through every capture, not only those onto
\* pos.
eval_captures_board_rec_any_capture(b, pos, c, alpha, beta) ==
    eval_captures_from(b, pos, c, alpha, beta, capture_moves(b, c),
                       check_attack(b, inv(c)))

eval_captures_board_rec(b, pos, c, alpha, beta) ==
    eval_captures_from(b, pos, c, alpha, beta,
        SelectSeq(capture_moves(b, c), LAMBDA mv : mv.to = pos),
        check_attack(b, inv(c)))

\* eval_board_rec for a depth above 0 up to its loop, given board.moves(color)
\* and board.check_attack(color.inv()).
eval_board_from(b, c, depth, alpha, beta, list, attack) ==
    IF list = <<>>
    THEN IF attack \cap get_pieces(b, c).king = {}
         THEN Finished(Returned(0))
         ELSE Finished(Returned(-i32_MAX))
    ELSE enter_loop(b, c, depth, -1, alpha, beta,
                    sort_by_key(list, b, attack))

\* eval_board_rec up to its loop, or up to the return of the call of
\* eval_captures_board_rec it makes at depth 0.  The moves generated for
\* the list are the captures when depth is 0 and all moves otherwise.
eval_board_rec(b, c, depth, alpha, beta) ==
    IF depth = 0
    THEN eval_captures_board_rec(b, b.prev_move.to, c, alpha, beta)
    ELSE eval_board_from(b, c, depth, alpha, beta, moves(b, c),
                         check_attack(b, inv(c)))

\* The call the loop of f makes for its next move: `let mut board = *board;
\* board.perform_move(mv);` and the recursive call on the copy.
call_on(f, copy) ==
    IF f.depth = 0
    THEN eval_captures_board_rec(copy, f.pos, inv(f.color), -f.beta, -f.alpha)
    ELSE eval_board_rec(copy, inv(f.color), f.depth - 1, -f.beta, -f.alpha)

loop_call(f) == call_on(f, perform_move(f.board, f.moves[f.next]))

\* The rest of the loop body of f once that call has returned r (a panic
\* unwinds f too), up to the next call or the return of f.
loop_resume(f, r) ==
    LET value == max(f.value, -r.value)
    IN  IF r.panicked THEN Finished(Panicked)
        ELSE IF f.beta <= value THEN Finished(Returned(f.beta))
        ELSE IF f.next = Len(f.moves) THEN Finished(Returned(value))
        ELSE [f EXCEPT !.next = @ + 1, !.value = value,
                       !.alpha = max(@, value)]

\* min_by_key over the root moves and their keys: the earlier of two moves
\* of equal key is kept, so the first move of minimal key is returned; a
\* panic in the search of any root move is a panic of the call.
min_by_key(list, keys) ==
    IF list = <<>> THEN Returned(None)
    ELSE IF \E k \in 1..Len(keys) : keys[k].panicked THEN Panicked
    ELSE Returned(list[CHOOSE k \in 1..Len(keys) :
             /\ \A j \in 1..Len(keys) : keys[k].value <= keys[j].value
             /\ \A j \in 1..(k - 1) : keys[j].value > keys[k].value])

(***************************************************************************)
(* The game loop (main): the side to move picks one of its generated moves *)
(* and the board applies it.  The games explored are the scripted lines    *)
(* below, every move of which must be one that moves(color) generates on   *)
(* the position it is played in, and every game that leaves a line and     *)
(* goes on for up to MaxFree moves of any kind that moves(color) offers.   *)
(***************************************************************************)
MaxFree == 1

Lines == <<
    \* The game main plays: e2e4 d7d5 e4e5 f7f5 e5f6 g8f6 f1b5 c7c6 g1h3
    \* c6b5 e1g1 (an en passant capture, a check, a kingside castle).
    << <<12, 28>>, <<51, 35>>, <<28, 36>>, <<53, 37>>, <<36, 45>>, <<62, 45>>,
       <<5, 33>>, <<50, 42>>, <<6, 23>>, <<42, 33>>, <<4, 6>> >>,
    \* c2c3 d7d5 a2a4 d5d4 a4a5 e7e6 a5a6 e8e7 a6b7 e7f6 b7a8 f6g5 d1a4 g5g4
    \* e2e4 d4e3 a4g4 (a promotion by capture; a black king on g4 with its
    \* d4 pawn and the leaped e4 pawn between it and the queen on a4).
    << <<10, 18>>, <<51, 35>>, <<8, 24>>, <<35, 27>>, <<24, 32>>, <<52, 44>>,
       <<32, 40>>, <<60, 52>>, <<40, 49>>, <<52, 45>>, <<49, 56>>, <<45, 38>>,
       <<3, 24>>, <<38, 30>>, <<12, 28>>, <<27, 20>>, <<24, 30>> >>,
    \* g1f3 b8c6 d2d4 e7e6 d4d5 e6d5 e2e4 d8e7 e4e5 f7f5 (a knight in front
    \* of the f2 pawn; a pawn on e5 pinned by the queen on e7 when f7f5 leaps).
    << <<6, 21>>, <<57, 42>>, <<11, 27>>, <<52, 44>>, <<27, 35>>, <<44, 35>>,
       <<12, 28>>, <<59, 52>>, <<28, 36>>, <<53, 37>> >>,
    \* g1f3 b8c6 h1g1 c6b8 g1h1 (a rook that leaves its corner and returns).
    << <<6, 21>>, <<57, 42>>, <<7, 6>>, <<42, 57>>, <<6, 7>> >>
>>

VARIABLES board, color, ply, lines, free, search, iter, steps
vars == <<board, color, ply, lines, free, search, iter, steps>>

\* No call of the bot is under way.
Idle == [pc |-> "idle", moves |-> <<>>, keys |-> <<>>, stack |-> <<>>,
         outcome |-> Returned(None)]

\* `BitIterator(x)` as constructed: the field self.0 is `rest`; `items` are
\* the values next() has returned so far and `finished` is set once it has
\* returned None.  `word` remembers x.
iterating(x) == [word |-> x, rest |-> x, items |-> <<>>, finished |-> FALSE]

\* No step of a call of the bot has been taken: `steps` is the number of
\* steps the call of choose_move has taken.
\* main: `let mut board = Board::new(); let mut color = Color::White;`
Init ==
    /\ board = Board_new
    /\ color = White
    /\ ply = 0
    /\ lines = 1..Len(Lines)
    /\ free = 0
    /\ search = Idle
    /\ iter = iterating({})
    /\ steps = 0

\* The lines among `ls` whose move number n + 1 is mv.
Following(ls, n, mv) ==
    {l \in ls : Len(Lines[l]) > n /\ Lines[l][n + 1] = <<mv.from, mv.to>>}

\* One turn of the game loop, `board.perform_move(mv); color = color.inv()`,
\* with the next move of a scripted line.
BookMove ==
    /\ lines # {}
    /\ \E mv \in Range(moves(board, color)) :
           /\ Following(lines, ply, mv) # {}
           /\ board' = perform_move(board, mv)
           /\ color' = inv(color)
           /\ ply' = ply + 1
           /\ lines' = Following(lines, ply, mv)
           /\ free' = free
           /\ search' = search
           /\ iter' = iter
           /\ steps' = steps

\* One turn of the game loop with any other generated move.
FreeMove ==
    /\ free < MaxFree
    /\ \E mv \in Range(moves(board, color)) :
           /\ Following(lines, ply, mv) = {}
           /\ board' = perform_move(board, mv)
           /\ color' = inv(color)
           /\ ply' = ply + 1
           /\ lines' = {}
           /\ free' = free + 1
           /\ search' = search
           /\ iter' = iter
           /\ steps' = steps

Next == BookMove \/ FreeMove

Spec == Init /\ [][Next]_vars

(***************************************************************************)
(* Positions set up by a caller: Board::new() followed by Board::clear on  *)
(* up to MaxCleared of the squares SetUpSquares (the back-rank squares     *)
(* between the kings and the rooks, and the two e-pawns).  Board::clear    *)
(* leaves prev_move and the castling flags as Board::new() set them.       *)
(***************************************************************************)
MaxCleared == 3
SetUpSquares == {1, 2, 3, 5, 6, 12, 52, 57, 58, 59, 61, 62}

ClearSquare ==
    /\ Cardinality(SetUpSquares \ occupied_squares(board)) < MaxCleared
    /\ \E sq \in SetUpSquares \cap occupied_squares(board) :
          board' = Board_clear(board, {sq})
    /\ UNCHANGED <<color, ply, lines, free, search, iter, steps>>

SetUpSpec == Init /\ [][ClearSquare]_vars

(***************************************************************************)
(* A call Bot::choose_move(&board, color), as a process: `search` holds    *)
(* the sorted root moves, the keys min_by_key has computed for them so far *)
(* (rayon runs the searches of the root moves in parallel; they share      *)
(* nothing, and the model runs them one after the other), the stack of the *)
(* calls of eval_board_rec and eval_captures_board_rec that are in their   *)
(* loops, and the outcome of the call.  The search works on copies of the  *)
(* board; `board` is the caller's.                                         *)
(*                                                                         *)
(* The calls explored: the bot asked for a Black move on Board::new(), and *)
(* for a White move in two endings of king and queen against a king on h8  *)
(* that has just moved there (the fields of Board are public; the castling *)
(* flags of an ending are all clear).                                      *)
(***************************************************************************)
NoPieces == [pawns |-> {}, rooks |-> {}, knights |-> {}, bishops |-> {},
             queens |-> {}, king |-> {}, all |-> {}]

QueenEnding(king, queen, prev_from) ==
    [white_pieces |-> [NoPieces EXCEPT !.king = {king}, !.queens = {queen},
                                       !.all = {king, queen}],
     black_pieces |-> [NoPieces EXCEPT !.king = {63}, !.all = {63}],
     prev_move |-> Move(prev_from, 63, "King"),
     flags |-> {}]

\* White: Kh1, Ra4, Pe4, which has just leaped from e2.  Black: Kg4, Pd4.
LeapEnding ==
    [white_pieces |-> [NoPieces EXCEPT !.king = {7}, !.rooks = {24},
                                       !.pawns = {28}, !.all = {7, 24, 28}],
     black_pieces |-> [NoPieces EXCEPT !.king = {30}, !.pawns = {27},
                                       !.all = {27, 30}],
     prev_move |-> Move(12, 28, "PawnLeap"),
     flags |-> {}]

\* White: Ka1, which has just come from b1, Pb6, Ph6.  Black: Kh8, Pc2, Pc3.
PawnEnding ==
    [white_pieces |-> [NoPieces EXCEPT !.king = {0}, !.pawns = {41, 47},
                                       !.all = {0, 41, 47}],
     black_pieces |-> [NoPieces EXCEPT !.king = {63}, !.pawns = {10, 18},
                                       !.all = {10, 18, 63}],
     prev_move |-> Move(1, 0, "King"),
     flags |-> {}]

BotCalls == {<<Board_new, Black>>,
             <<QueenEnding(47, 53, 62), White>>,
             <<QueenEnding(61, 46, 55), White>>,
             <<LeapEnding, Black>>,
             <<PawnEnding, Black>>}

BotInit ==
    /\ \E call \in BotCalls : board = call[1] /\ color = call[2]
    /\ ply = 0
    /\ lines = {}
    /\ free = 0
    /\ search = Idle
    /\ iter = iterating({})
    /\ steps = 0

top == search.stack[Len(search.stack)]

\* The state of the call once the root moves are sorted.
sorted_root(s, sorted) ==
    IF sorted.panicked THEN [s EXCEPT !.pc = "done", !.outcome = Panicked]
    ELSE [s EXCEPT !.pc = "search", !.moves = sorted.value]

pop(s) == [s EXCEPT !.stack = SubSeq(@, 1, Len(@) - 1)]

\* A call returns r to its caller: the loop of the innermost call left on
\* the stack, or, when none is left, min_by_key, which takes r as the key
\* of the root move.
returned(s, r) ==
    IF s.stack = <<>> THEN [s EXCEPT !.keys = Append(@, r)]
    ELSE [s EXCEPT !.stack[Len(s.stack)] = loop_resume(@, r)]

\* A call is made: it returns before its own loop, or it reaches its loop
\* and becomes the innermost call.
called(s, call) ==
    IF call.done THEN returned(s, call.result)
    ELSE [s EXCEPT !.stack = Append(@, call)]

\* choose_move up to min_by_key: the root moves, sorted.
ChooseMove ==
    /\ search.pc = "idle"
    /\ search' = sorted_root(search,
                      sort_by_key(moves(board, color), board,
                                  check_attack(board, inv(color))))
    /\ steps' = steps + 1
    /\ UNCHANGED <<board, color, ply, lines, free, iter>>

\* A panic of the closure unwinds choose_move: no further root move is
\* searched.
unwinding(s) == \E k \in 1..Len(s.keys) : s.keys[k].panicked

\* The closure of min_by_key on the next root move: the move is performed
\* on a copy of the board and eval_board_rec is called on the copy.
SearchRoot ==
    /\ search.pc = "search"
    /\ search.stack = <<>>
    /\ Len(search.keys) < Len(search.moves)
    /\ ~unwinding(search)
    /\ search' = called(search,
                      eval_board_rec(
                          perform_move(board,
                                       search.moves[Len(search.keys) + 1]),
                          inv(color), DEPTH, -i32_MAX, i32_MAX))
    /\ steps' = steps + 1
    /\ UNCHANGED <<board, color, ply, lines, free, iter>>

\* One turn of the loop of the innermost call: the recursive call either
\* returns before its own loop, and the turn is completed, or it reaches
\* its loop and becomes the innermost call.
LoopCall ==
    /\ search.stack # <<>>
    /\ ~top.done
    /\ search' = called(search, loop_call(top))
    /\ steps' = steps + 1
    /\ UNCHANGED <<board, color, ply, lines, free, iter>>

\* The innermost call returns to the loop that called it.
LoopReturn ==
    /\ Len(search.stack) >= 2
    /\ top.done
    /\ search' = returned(pop(search), top.result)
    /\ steps' = steps + 1
    /\ UNCHANGED <<board, color, ply, lines, free, iter>>

\* The search of a root move returns its key.
RootReturn ==
    /\ Len(search.stack) = 1
    /\ top.done
    /\ search' = returned(pop(search), top.result)
    /\ steps' = steps + 1
    /\ UNCHANGED <<board, color, ply, lines, free, iter>>

\* Every root move has its key, or a panic unwinds: choose_move returns.
MinByKey ==
    /\ search.pc = "search"
    /\ search.stack = <<>>
    /\ Len(search.keys) = Len(search.moves) \/ unwinding(search)
    /\ search' = [search EXCEPT !.pc = "done",
                      !.outcome = min_by_key(search.moves, search.keys)]
    /\ steps' = steps + 1
    /\ UNCHANGED <<board, color, ply, lines, free, iter>>

BotNext ==
    \/ ChooseMove
    \/ SearchRoot
    \/ LoopCall
    \/ LoopReturn
    \/ RootReturn
    \/ MinByKey

BotSpec == BotInit /\ [][BotNext]_vars

\* The call of choose_move runs on: the thread that makes it is never
\* suspended for ever, so as long as the call has not ended it takes its
\* next step (`steps` counts the steps taken).
Step == search.pc # "done" /\ steps' = steps + 1
FairBotSpec == BotSpec /\ WF_steps(Step)

(***************************************************************************)
(* choose_move with the root moves searched in parallel: into_par_iter()   *)
(* hands the root moves to the workers of the thread pool in any order,    *)
(* at most Workers of them are under way at a time and their steps         *)
(* interleave.  Here search.stack[k] is the stack of the search of root    *)
(* move k and search.keys[k] its key, Pending until that search returns.   *)
(***************************************************************************)
Workers == 2
Pending == [pending |-> TRUE]

\* White: Ka1, Pc5.  Black: Kb3, which has just come from b4, Pe3, Pe7.
CornerEnding ==
    [white_pieces |-> [NoPieces EXCEPT !.king = {0}, !.pawns = {34},
                                       !.all = {0, 34}],
     black_pieces |-> [NoPieces EXCEPT !.king = {17}, !.pawns = {20, 52},
                                       !.all = {17, 20, 52}],
     prev_move |-> Move(25, 17, "King"),
     flags |-> {}]

\* White: Kh1, Pa2, Pe5.  Black: Kf2, which has just come from e2, Pd3, Pg3.
EdgeEnding ==
    [white_pieces |-> [NoPieces EXCEPT !.king = {7}, !.pawns = {8, 36},
                                       !.all = {7, 8, 36}],
     black_pieces |-> [NoPieces EXCEPT !.king = {13}, !.pawns = {19, 22},
                                       !.all = {13, 19, 22}],
     prev_move |-> Move(12, 13, "King"),
     flags |-> {}]

RayonCalls == {<<CornerEnding, White>>, <<EdgeEnding, White>>}

RayonInit ==
    /\ \E call \in RayonCalls : board = call[1] /\ color = call[2]
    /\ ply = 0
    /\ lines = {}
    /\ free = 0
    /\ search = Idle
    /\ iter = iterating({})
    /\ steps = 0

\* The state of the call once the root moves are sorted: no root move has
\* been handed to a worker.
forked_root(s, sorted) ==
    IF sorted.panicked THEN [s EXCEPT !.pc = "done", !.outcome = Panicked]
    ELSE [s EXCEPT !.pc = "search", !.moves = sorted.value,
                   !.keys = [k \in 1..Len(sorted.value) |-> Pending],
                   !.stack = [k \in 1..Len(sorted.value) |-> <<>>]]

\* The search of root move k seen by itself: its stack, and no key yet.
job(s, k) == [stack |-> s.stack[k], keys |-> <<>>]
\* ... and put back among the others after a step.
job_done(s, k, j) ==
    [s EXCEPT !.stack[k] = j.stack,
              !.keys[k] = IF j.keys = <<>> THEN Pending ELSE j.keys[1]]

\* A closure that takes the least key found so far by any worker as the
\* lower bound of its window.
root_call_shared_bound(s, b, c, k) ==
    eval_board_rec(perform_move(b, s.moves[k]), inv(c), DEPTH,
                   IF \A j \in 1..Len(s.keys) : s.keys[j] = Pending
                   THEN -i32_MAX
                   ELSE CHOOSE v \in {s.keys[j].value : j \in
                            {j \in 1..Len(s.keys) : s.keys[j] # Pending}} :
                            \A j \in 1..Len(s.keys) :
                                s.keys[j] # Pending => v <= s.keys[j].value,
                   i32_MAX)
\* The closure of min_by_key on root move k, up to the loop of
\* eval_board_rec.
root_call(s, b, c, k) ==
    eval_board_rec(perform_move(b, s.moves[k]), inv(c), DEPTH,
                   -i32_MAX, i32_MAX)

\* One step of the search of root move k: the closure is entered, or the
\* innermost call makes its next call, or it returns.
job_top(s, k) == s.stack[k][Len(s.stack[k])]
job_step(s, b, c, k) ==
    job_done(s, k,
        IF s.stack[k] = <<>> THEN called(job(s, k), root_call(s, b, c, k))
        ELSE IF ~job_top(s, k).done
        THEN called(job(s, k), loop_call(job_top(s, k)))
        ELSE returned(pop(job(s, k)), job_top(s, k).result))

under_way(s) == {k \in 1..Len(s.moves) : s.stack[k] # <<>>}
waiting(s) == {k \in 1..Len(s.moves) : s.stack[k] = <<>> /\ s.keys[k] = Pending}

RayonChooseMove ==
    /\ search.pc = "idle"
    /\ search' = forked_root(search,
                      sort_by_key(moves(board, color), board,
                                  check_attack(board, inv(color))))
    /\ UNCHANGED <<board, color, ply, lines, free, iter, steps>>

\* A worker takes a root move.
JobStart ==
    /\ search.pc = "search"
    /\ Cardinality(under_way(search)) < Workers
    /\ \E k \in waiting(search) : search' = job_step(search, board, color, k)
    /\ UNCHANGED <<board, color, ply, lines, free, iter, steps>>

\* A worker goes on with the search of its root move.
JobStep ==
    /\ search.pc = "search"
    /\ \E k \in under_way(search) : search' = job_step(search, board, color, k)
    /\ UNCHANGED <<board, color, ply, lines, free, iter, steps>>

\* Every closure has returned or unwound: min_by_key returns.
Join ==
    /\ search.pc = "search"
    /\ under_way(search) = {}
    /\ waiting(search) = {}
    /\ search' = [search EXCEPT !.pc = "done",
                      !.outcome = min_by_key(search.moves, search.keys)]
    /\ UNCHANGED <<board, color, ply, lines, free, iter, steps>>

RayonNext ==
    \/ RayonChooseMove
    \/ JobStart
    \/ JobStep
    \/ Join

RayonSpec == RayonInit /\ [][RayonNext]_vars

(***************************************************************************)
(* The bit iterator on its own: a `for bit in BitIterator(x)` loop over a  *)
(* word x of IterWords, one call of next() per step.  Words are sets of    *)
(* bit indices 0..63; the arithmetic of next() is carried out bit by bit.  *)
(***************************************************************************)
\* a ^ b
xor(a, b) == (a \ b) \cup (b \ a)

\* x - 1 on 64 bits (wrapping): bit i of the difference is bit i of x
\* flipped exactly when the borrow reaches it, i.e. when every lower bit of
\* x is 0.
sub_one_no_borrow(x) == xor(x, {0})
sub_one(x) == {i \in 0..63 : (i \in x) # (\A j \in 0..(i - 1) : j \notin x)}

\* BitIterator::next.
BitIterator_next(it) ==
    IF it.rest = {} THEN [it EXCEPT !.finished = TRUE]
    ELSE LET prev == it.rest
             rest == prev \cap sub_one(prev)
         IN  [it EXCEPT !.rest = rest, !.items = Append(@, xor(prev, rest))]

\* The words iterated over: every combination of the bits IterBits (the
\* ends of the word, of its halves and of a rank) and the full word.
IterBits == {0, 1, 7, 8, 31, 32, 62, 63}
IterWords == SUBSET IterBits \cup {0..63}

BitInit ==
    /\ board = Board_new
    /\ color = White
    /\ ply = 0
    /\ lines = {}
    /\ free = 0
    /\ search = Idle
    /\ \E x \in IterWords : iter = iterating(x)
    /\ steps = 0

\* One turn of the `for` loop: it calls next() until next() returns None.
IterNext ==
    /\ ~iter.finished
    /\ iter' = BitIterator_next(iter)
    /\ UNCHANGED <<board, color, ply, lines, free, search, steps>>

BitSpec == BitInit /\ [][IterNext]_vars

(***************************************************************************)
(* Properties                                                              *)
(***************************************************************************)
home_king(c) == IF c = White THEN 4 ELSE 60
home_rank(c) == IF c = White THEN 0..7 ELSE 56..63
occupied == board.white_pieces.all \cup board.black_pieces.all

\* C1: in every position of the game, for each color c (to move or not),
\* every move of moves(c) is accepted by is_legal(c, .).
C1_GeneratedMovesAreLegal ==
    \A c \in Color : \A mv \in Range(moves(board, c)) : is_legal(board, c, mv)

\* The king of `c` is not attacked by the other side after mv is applied.
king_safe_after(c, mv) ==
    LET after == perform_move(board, mv)
    IN  get_pieces(after, c).king \cap check_attack(after, inv(c)) = {}

\* C2: applying any move of moves(side to move) to a copy of the board
\* leaves the mover's king outside attacks_of(opponent).
C2_NoMoveLeavesOwnKingAttacked ==
    \A mv \in Range(moves(board, color)) : king_safe_after(color, mv)

\* Every move the generator could name: all origins, destinations and kinds
\* but the three under-promotions.
GeneratedKinds == MoveType \ {"PawnRookPromotion", "PawnBishopPromotion",
                              "PawnKnightPromotion"}

\* C3: every move of a kind other than the under-promotions that
\* is_legal(side to move, .) accepts is an element of moves(side to move).
C3_EveryLegalMoveIsGenerated ==
    LET list == Range(moves(board, color))
    IN  \A ty \in GeneratedKinds : \A from \in 0..63 : \A to \in 0..63 :
            is_legal(board, color, Move(from, to, ty))
                => Move(from, to, ty) \in list

KindMasks == {"king", "queens", "rooks", "bishops", "knights", "pawns"}

\* C4: in every position of the game the six piece-kind masks of each
\* color are pairwise disjoint, their union is that color's `all` mask, and
\* the two `all` masks are disjoint.
C4_MasksPartitionAll ==
    /\ \A c \in Color :
          LET pieces == get_pieces(board, c)
          IN  /\ \A m, n \in KindMasks : m # n => pieces[m] \cap pieces[n] = {}
              /\ UNION {pieces[m] : m \in KindMasks} = pieces.all
    /\ board.white_pieces.all \cap board.black_pieces.all = {}

\* Witness of C4: a pawn has captured a rook and become a queen, and the
\* other side has lost pieces.
C4_Witness ==
    /\ board.prev_move.ty = "PawnQueenPromotion"
    /\ Cardinality(board.black_pieces.all) < 16
    /\ Cardinality(board.white_pieces.queens) = 2

\* C5: in every position of the game each color's king mask has exactly
\* one bit set.
C5_ExactlyOneKing ==
    \A c \in Color : Cardinality(get_pieces(board, c).king) = 1

\* C6: a castling right that is clear before a move is applied is clear
\* after it: every step of the game only takes flags away.
C6_RightsOnlyFall == [][board'.flags \subseteq board.flags]_vars

\* Witness of C6: the white kingside right has been taken away and stays
\* away although the white king and the h1 rook stand on their home squares.
C6_Witness ==
    /\ WHITE_KINGS_CASTLE \notin board.flags
    /\ board.white_pieces.king = {4}
    /\ 7 \in board.white_pieces.rooks
    /\ ply > 1

\* The castling rights C7 expects after a move: those set before it whose
\* own king and own rook of that wing stand on their home squares.
own_rights_kept(flags, b) ==
    {f \in flags :
        CASE f = WHITE_KINGS_CASTLE ->
                 b.white_pieces.king = {4} /\ 7 \in b.white_pieces.rooks
          [] f = WHITE_QUEENS_CASTLE ->
                 b.white_pieces.king = {4} /\ 0 \in b.white_pieces.rooks
          [] f = BLACK_KINGS_CASTLE ->
                 b.black_pieces.king = {60} /\ 63 \in b.black_pieces.rooks
          [] f = BLACK_QUEENS_CASTLE ->
                 b.black_pieces.king = {60} /\ 56 \in b.black_pieces.rooks}

\* C7: after a move is applied, each castling right of a side is set
\* exactly when it was set before and that side's own king and own rook of
\* that wing are on their home squares.
C7_RightsFollowOwnKingAndRooks ==
    [][board'.flags = own_rights_kept(board.flags, board')]_vars

\* The squares between the king of c and its rook of the wing the castle
\* move mv goes to, and the three squares of the king's path.
castle_between(c, mv) ==
    IF mv.to % 8 = 6 THEN {home_king(c) + 1, home_king(c) + 2}
    ELSE {home_king(c) - 1, home_king(c) - 2, home_king(c) - 3}
castle_path(c, mv) ==
    IF mv.to % 8 = 6 THEN {home_king(c), home_king(c) + 1, home_king(c) + 2}
    ELSE {home_king(c), home_king(c) - 1, home_king(c) - 2}
castle_right(c, mv) ==
    IF c = White
    THEN (IF mv.to % 8 = 6 THEN WHITE_KINGS_CASTLE ELSE WHITE_QUEENS_CASTLE)
    ELSE (IF mv.to % 8 = 6 THEN BLACK_KINGS_CASTLE ELSE BLACK_QUEENS_CASTLE)

\* C8: for each color c, a Castle move of moves(c) goes from c's king home
\* square to the g- or c-file square of c's home rank, c holds the right of
\* that wing, the squares between king and rook are empty and no square of
\* the king's path is attacked by the other side.
C8_CastleOnlyWhenAllowed ==
    \A c \in Color : \A mv \in Range(moves(board, c)) :
        mv.ty = "Castle" =>
            /\ mv.from = home_king(c)
            /\ mv.to \in {home_king(c) + 2, home_king(c) - 2}
            /\ castle_right(c, mv) \in board.flags
            /\ castle_between(c, mv) \cap occupied = {}
            /\ castle_path(c, mv) \cap check_attack(board, inv(c)) = {}

\* The pawns of the side to move that stand beside the pawn that has just
\* leaped: on its rank, one file to either side.
beside_leaped_pawn ==
    {p \in get_pieces(board, color).pawns :
        /\ p \div 8 = board.prev_move.to \div 8
        /\ p - board.prev_move.to \in {-1, 1}}

\* The square directly behind the pawn that has just leaped, seen from the
\* side to move.
behind_leaped_pawn ==
    IF color = White THEN board.prev_move.to + 8 ELSE board.prev_move.to - 8

en_passant_in_moves ==
    {mv \in Range(moves(board, color)) : mv.ty = "PawnEnPassant"}

\* C9 as stated: moves(side to move) contains a PawnEnPassant move if and
\* only if the previous move is a PawnLeap and a pawn of the side to move
\* stands beside the leaped pawn; every such move starts on such a pawn and
\* lands directly behind the leaped pawn.
C9_EnPassantIffLeapBeside ==
    /\ en_passant_in_moves # {}
          <=> (board.prev_move.ty = "PawnLeap" /\ beside_leaped_pawn # {})
    /\ \A mv \in en_passant_in_moves :
          mv.from \in beside_leaped_pawn /\ mv.to = behind_leaped_pawn

\* C9 as amended: a PawnEnPassant move of moves(side to move) follows a
\* PawnLeap, starts on a pawn beside the leaped pawn and lands directly
\* behind it; after a PawnLeap the capture by a pawn beside the leaped pawn
\* is in moves unless the side to move is in check or that pawn is pinned
\* and the capture leaves the mover's king attacked.
C9_EnPassantAfterLeapUnlessKingExposed ==
    /\ \A mv \in en_passant_in_moves :
          /\ board.prev_move.ty = "PawnLeap"
          /\ mv.from \in beside_leaped_pawn
          /\ mv.to = behind_leaped_pawn
    /\ board.prev_move.ty = "PawnLeap" =>
          \A p \in beside_leaped_pawn :
              LET mv == Move(p, behind_leaped_pawn, "PawnEnPassant")
                  check == get_pieces(board, color).king
                               \cap check_attack(board, inv(color)) # {}
                  pinned == p \in find_pins(board, color)
              IN  mv \in en_passant_in_moves
                      <=> ~((check \/ pinned) /\ ~king_safe_after(color, mv))

\* Witness of C9: a pawn has just leaped and a pawn beside it may capture it
\* en passant.
C9_Witness ==
    /\ board.prev_move.ty = "PawnLeap"
    /\ beside_leaped_pawn # {}
    /\ en_passant_in_moves # {}

\* C10: for each color c, captures(c) is, as a set, the moves of moves(c)
\* that are PawnEnPassant or land on a square occupied by the other side;
\* it holds no castle, no pawn push or leap and no move to an empty square
\* other than an en passant capture.
C10_CapturesAreTheCapturingMoves ==
    \A c \in Color :
        LET other_all == get_pieces(board, inv(c)).all
            caps == Range(capture_moves(board, c))
        IN  /\ caps = {mv \in Range(moves(board, c)) :
                           mv.ty = "PawnEnPassant" \/ mv.to \in other_all}
            /\ \A mv \in caps :
                  /\ mv.ty \notin {"Castle", "PawnLeap"}
                  /\ mv.ty # "PawnEnPassant" => mv.to \in other_all

\* The eight king rays as (file, rank) steps, and the square n steps from
\* square k along step d (-1 when it is off the board).
RaySteps == {<<1, 0>>, <<-1, 0>>, <<0, 1>>, <<0, -1>>,
             <<1, 1>>, <<-1, 1>>, <<1, -1>>, <<-1, -1>>}
square_along(k, d, n) ==
    LET file == (k % 8) + n * d[1]
        rank == (k \div 8) + n * d[2]
    IN  IF file \in 0..7 /\ rank \in 0..7 THEN 8 * rank + file ELSE -1

\* The sliders of pieces that move along step d: rooks and queens on a rank
\* or file, bishops and queens on a diagonal.
sliders_along(pieces, d) ==
    IF d[1] = 0 \/ d[2] = 0 THEN pieces.rooks \cup pieces.queens
    ELSE pieces.bishops \cup pieces.queens

\* The distances from square k along step d at which a piece stands.
occupied_along(b, k, d) ==
    {n \in 1..7 : square_along(k, d, n)
                      \in b.white_pieces.all \cup b.black_pieces.all}

\* The pieces of c that are the only piece standing between c's king and
\* an enemy slider of matching flavor on a king ray: the first piece of the
\* ray is c's and the second is such a slider.
only_piece_before_slider(b, c) ==
    UNION {LET occ == occupied_along(b, k, d)
               first == {m \in occ : \A i \in occ : m <= i}
               second == {n \in occ \ first : \A i \in occ \ first : n <= i}
           IN  {p \in {square_along(k, d, m) : m \in first} :
                    /\ p \in get_pieces(b, c).all
                    /\ \E n \in second :
                          square_along(k, d, n)
                              \in sliders_along(get_pieces(b, inv(c)), d)}
           : k \in get_pieces(b, c).king, d \in RaySteps}

\* C11: for each color c, find_pins(c) is a subset of all(c) and is exactly
\* the set of c's pieces that are the only piece between c's king and an
\* enemy slider of matching flavor on one of the eight king rays.
C11_PinsAreLoneBlockers ==
    \A c \in Color :
        /\ find_pins(board, c) \subseteq get_pieces(board, c).all
        /\ find_pins(board, c) = only_piece_before_slider(board, c)

\* Witness of C11: a piece of one side is pinned to its king.
C11_Witness == \E c \in Color : find_pins(board, c) # {}

\* The squares a slider on square k sees along step d from distance n on
\* when the pieces on `blockers` stop it: every square up to and including
\* the first blocker or the board edge.
RECURSIVE seen_from(_, _, _, _)
seen_from(k, d, n, blockers) ==
    LET sq == square_along(k, d, n)
    IN  IF sq = -1 THEN {}
        ELSE IF sq \in blockers THEN {sq}
        ELSE {sq} \cup seen_from(k, d, n + 1, blockers)
seen_along(k, d, blockers) == seen_from(k, d, 1, blockers)

\* The squares the sliders of c see when only `blockers` stop a ray.
slider_attacks(b, c, blockers) ==
    UNION {UNION {seen_along(k, d, blockers) :
                     k \in sliders_along(get_pieces(b, c), d)} : d \in RaySteps}

\* The squares the pawns, the king and the knights of c attack.
KnightJumps == {<<1, 2>>, <<2, 1>>, <<2, -1>>, <<1, -2>>,
                <<-1, -2>>, <<-2, -1>>, <<-2, 1>>, <<-1, 2>>}
step_attacks(b, c) ==
    LET pieces == get_pieces(b, c)
        forward == IF c = White THEN 1 ELSE -1
    IN  ({square_along(k, <<df, forward>>, 1) : k \in pieces.pawns, df \in {-1, 1}}
         \cup {square_along(k, d, 1) : k \in pieces.king, d \in RaySteps}
         \cup {square_along(k, d, 1) : k \in pieces.knights, d \in KnightJumps})
        \ {-1}

\* C12: check_attack(c) is what the pawns, king and knights of c attack
\* together with what c's sliders see when every piece but the opposing
\* king stops a ray: the ray goes on through the opposing king up to and
\* including the next occupied square or the board edge, and through no
\* other piece.
C12_OpposingKingIsTransparent ==
    \A c \in Color :
        check_attack(board, c)
            = step_attacks(board, c)
                \cup slider_attacks(board, c,
                         occupied \ get_pieces(board, inv(c)).king)

\* Witness of C12: the first piece a slider of c meets on a ray is the
\* opposing king, the square beyond it is on the board, and c attacks it.
C12_Witness ==
    \E c \in Color : \E d \in RaySteps :
        \E k \in sliders_along(get_pieces(board, c), d) : \E n \in 1..6 :
            /\ square_along(k, d, n) \in get_pieces(board, inv(c)).king
            /\ \A i \in 1..(n - 1) : square_along(k, d, i) \notin occupied
            /\ square_along(k, d, n + 1) # -1
            /\ square_along(k, d, n + 1) \in check_attack(board, c)
            /\ square_along(k, d, n + 1) \notin step_attacks(board, c)

PromotionKinds == {"PawnQueenPromotion", "PawnRookPromotion",
                   "PawnBishopPromotion", "PawnKnightPromotion"}
far_rank(c) == IF c = White THEN 56..63 ELSE 0..7
leap_rank(c) == IF c = White THEN 24..31 ELSE 32..39

\* What C13 asks of a move of color c: a promotion lands on c's far rank; a
\* PawnLeap spans 16 squares and lands on the fourth rank for White, the
\* fifth for Black.
well_placed(c, mv) ==
    /\ mv.ty \in PromotionKinds => mv.to \in far_rank(c)
    /\ mv.ty = "PawnLeap" =>
          /\ mv.to - mv.from \in {16, -16}
          /\ mv.to \in leap_rank(c)

\* C13: for each color c, every promotion and every PawnLeap of moves(c)
\* and of captures(c) lands on c's far rank, respectively spans 16 squares
\* onto the fourth (White) or fifth (Black) rank; and so does, in every
\* position of the scripted lines, every promotion and PawnLeap among all
\* the moves (any origin, any destination) that is_legal(c, .) accepts.
C13_PromotionsAndLeapsWellPlaced ==
    \A c \in Color :
        /\ \A mv \in Range(moves(board, c)) \cup Range(capture_moves(board, c)) :
              well_placed(c, mv)
        /\ free = 0 =>
              \A ty \in PromotionKinds \cup {"PawnLeap"} :
                  \A from \in 0..63 : \A to \in 0..63 :
                      is_legal(board, c, Move(from, to, ty))
                          => well_placed(c, Move(from, to, ty))

\* Witness of C13: the side to move may promote, and is_legal accepts an
\* under-promotion; the other side may leap.
C13_Witness ==
    /\ \E mv \in Range(moves(board, color)) : mv.ty = "PawnQueenPromotion"
    /\ \E from \in get_pieces(board, color).pawns : \E to \in far_rank(color) :
          is_legal(board, color, Move(from, to, "PawnKnightPromotion"))
    /\ \E mv \in Range(moves(board, inv(color))) : mv.ty = "PawnLeap"

\* The number of moves of kind ty in a move list.
count_of(list, ty) == Len(SelectSeq(list, LAMBDA mv : mv.ty = ty))

\* C14: in the initial position moves(White) has exactly 20 elements: 8
\* pawn single pushes, 8 PawnLeaps and 4 knight moves; after e2->e4
\* (PawnLeap) is applied moves(Black) has exactly 20 elements.
C14_TwentyOpeningMoves ==
    /\ ply = 0 =>
          LET list == moves(board, White)
          IN  /\ Len(list) = 20
              /\ Cardinality(Range(list)) = 20
              /\ count_of(list, "Pawn") = 8
              /\ count_of(list, "PawnLeap") = 8
              /\ count_of(list, "Knight") = 4
    /\ (ply = 1 /\ board.prev_move = Move(12, 28, "PawnLeap")) =>
          LET list == moves(board, Black)
          IN  Len(list) = 20 /\ Cardinality(Range(list)) = 20

\* Witness of C14: e2->e4 has been applied to the initial position.
C14_Witness ==
    /\ ply = 1
    /\ board = perform_move(Board_new, Move(12, 28, "PawnLeap"))
    /\ color = Black

AllMasks == KindMasks \cup {"all"}

\* The effect C15 asks of applying the en passant move mv of color c to the
\* position b: the opposing pawn directly behind mv.to leaves the
\* opponent's `all` and `pawns`, c's pawn goes from mv.from to mv.to, and
\* no other square changes its occupant.
en_passant_effect(b, c, mv) ==
    LET after == perform_move(b, mv)
        taken == IF c = White THEN mv.to - 8 ELSE mv.to + 8
        mine == get_pieces(b, c)
        theirs == get_pieces(b, inv(c))
    IN  /\ taken \in theirs.pawns
        /\ mv.from \in mine.pawns
        /\ mv.to \notin mine.all \cup theirs.all
        /\ \A m \in AllMasks :
              /\ get_pieces(after, inv(c))[m] = theirs[m] \ {taken}
              /\ get_pieces(after, c)[m] =
                     IF m \in {"all", "pawns"}
                     THEN (mine[m] \ {mv.from}) \cup {mv.to}
                     ELSE mine[m]

\* C15: applying a PawnEnPassant move that moves(side to move) emits removes
\* the opposing pawn directly behind `to` from the opponent's `all` and
\* `pawns`, moves the mover's pawn from `from` to `to` and changes no other
\* square; after e2e4 d7d5 e4e5 f7f5 moves(White) contains (e5, f6,
\* PawnEnPassant), and applying it leaves a white pawn on f6 and e5 and f5
\* empty.
C15_EnPassantRemovesLeapedPawn ==
    /\ \A mv \in en_passant_in_moves : en_passant_effect(board, color, mv)
    /\ (ply = 4 /\ lines = {1}) =>
          /\ Move(36, 45, "PawnEnPassant") \in Range(moves(board, White))
          /\ LET after == perform_move(board, Move(36, 45, "PawnEnPassant"))
             IN  /\ 45 \in after.white_pieces.pawns
                 /\ {36, 37} \cap (after.white_pieces.all
                                       \cup after.black_pieces.all) = {}
                 /\ 37 \notin after.black_pieces.all

\* Witness of C15: e5xf6 en passant has been applied after e2e4 d7d5 e4e5
\* f7f5.
C15_Witness ==
    /\ ply = 5
    /\ board.prev_move = Move(36, 45, "PawnEnPassant")
    /\ 45 \in board.white_pieces.pawns
    /\ 37 \notin board.black_pieces.all

\* The mask of the piece a promotion kind chooses.
promoted_mask(ty) ==
    CASE ty = "PawnQueenPromotion" -> "queens"
      [] ty = "PawnRookPromotion" -> "rooks"
      [] ty = "PawnBishopPromotion" -> "bishops"
      [] ty = "PawnKnightPromotion" -> "knights"

\* The effect C16 asks of applying the promotion mv of color c to the
\* position b: c's pawn leaves mv.from, which is then empty; a piece of c of
\* the chosen kind stands on mv.to; whatever the opponent had on mv.to is
\* gone from all its masks; nothing else changes.
promotion_effect(b, c, mv) ==
    LET after == perform_move(b, mv)
        mine == get_pieces(b, c)
        theirs == get_pieces(b, inv(c))
    IN  /\ mv.from \in mine.pawns
        /\ mv.from \notin after.white_pieces.all \cup after.black_pieces.all
        /\ \A m \in AllMasks :
              /\ get_pieces(after, inv(c))[m] = theirs[m] \ {mv.to}
              /\ get_pieces(after, c)[m] =
                     CASE m = "all" -> (mine[m] \ {mv.from}) \cup {mv.to}
                       [] m = "pawns" -> mine[m] \ {mv.from}
                       [] m = promoted_mask(mv.ty) -> mine[m] \cup {mv.to}
                       [] OTHER -> mine[m]

\* C16: applying a move of any of the four promotion kinds that
\* is_legal(c, .) accepts empties `from`, removes c's pawn, puts a piece of
\* c of the chosen kind on `to` and clears the opponent's piece on `to` from
\* all its masks: for every pawn of c and every far-rank destination in
\* every position, and for every origin and destination in the positions of
\* the scripted lines.  With a white pawn on b7 and a black rook on a8
\* moves(White) contains (b7, a8, PawnQueenPromotion), and after it b7 is
\* empty, a8 holds a white queen and the black rook is gone.
C16_PromotionReplacesPawn ==
    /\ \A c \in Color : \A ty \in PromotionKinds :
          /\ \A from \in get_pieces(board, c).pawns : \A to \in far_rank(c) :
                is_legal(board, c, Move(from, to, ty))
                    => promotion_effect(board, c, Move(from, to, ty))
          /\ free = 0 =>
                \A from \in 0..63 : \A to \in 0..63 :
                    is_legal(board, c, Move(from, to, ty))
                        => promotion_effect(board, c, Move(from, to, ty))
    /\ (color = White /\ 49 \in board.white_pieces.pawns
                      /\ 56 \in board.black_pieces.rooks) =>
          /\ Move(49, 56, "PawnQueenPromotion") \in Range(moves(board, White))
          /\ LET after == perform_move(board, Move(49, 56, "PawnQueenPromotion"))
             IN  /\ 49 \notin after.white_pieces.all \cup after.black_pieces.all
                 /\ 56 \in after.white_pieces.queens
                 /\ 56 \notin after.black_pieces.all \cup after.black_pieces.rooks

\* Witness of C16: White's pawn on b7 has taken the rook on a8 and become
\* a queen.
C16_Witness ==
    /\ board.prev_move = Move(49, 56, "PawnQueenPromotion")
    /\ 56 \in board.white_pieces.queens
    /\ 56 \notin board.black_pieces.all
    /\ 49 \notin occupied

\* What C17 asks of the result r of get_legal_move(c, from, to) on the
\* position b: a move is returned only from a square holding a piece of c,
\* is accepted by is_legal and keeps the two squares; from an empty square,
\* from a piece of the other color, or when is_legal rejects the inferred
\* move, nothing is returned.
derived_as_asked(b, c, from, to, r) ==
    LET mine == get_pieces(b, c).all
        theirs == get_pieces(b, inv(c)).all
    IN  /\ r # None =>
              /\ from \in mine
              /\ is_legal(b, c, r)
              /\ r.from = from /\ r.to = to
        /\ from \notin mine \cup theirs => r = None
        /\ from \in theirs => r = None
        /\ from \in mine =>
              LET inferred == Move(from, to,
                                   inferred_type(b, c, Board_get_at(b, from).ty,
                                                 from, to))
              IN  ~is_legal(b, c, inferred) => r = None

\* C17: in every position of the scripted lines, for each color c and every
\* pair of squares, get_legal_move(c, from, to) returns a move only if
\* `from` holds a piece of c and is_legal(c, .) accepts the move, which then
\* has the two squares asked for; it returns nothing when `from` is empty,
\* holds a piece of the other color, or is_legal rejects the inferred move.
\* (get_legal_move takes the board by shared reference and returns only the
\* move: the position it is asked about is the position after the call.)
C17_DerivedMoveIsLegal ==
    free = 0 =>
        \A c \in Color : \A from \in 0..63 : \A to \in 0..63 :
            derived_as_asked(board, c, from, to,
                             get_legal_move(board, c, from, to))

\* Witness of C17: on a position of the scripted lines get_legal_move
\* returns an en passant capture for the side to move, returns nothing from
\* an empty square and nothing for a move that is_legal rejects.
C17_Witness ==
    /\ free = 0
    /\ \E mv \in Range(moves(board, color)) :
          /\ mv.ty = "PawnEnPassant"
          /\ get_legal_move(board, color, mv.from, mv.to) = mv
    /\ \E from \in 0..63 \ occupied : \A to \in 0..63 :
          get_legal_move(board, color, from, to) = None
    /\ \E from \in get_pieces(board, color).all : \E to \in 0..63 :
          /\ get_legal_move(board, color, from, to) = None
          /\ ~is_legal(board, color,
                       Move(from, to,
                            inferred_type(board, color,
                                          Board_get_at(board, from).ty, from, to)))

\* What C18 asks is_legal(c, mv) to accept as a castle on the position b:
\* mv.to is the g- or c-file square of c's home rank, the squares between
\* c's king and the rook of that wing are empty, c holds the right of that
\* wing, and the opponent attacks none of the three squares of the king's
\* path.
castle_allowed(b, c, mv) ==
    LET home == home_king(c)
        kingside == mv.to = home + 2
        between == IF kingside THEN {home + 1, home + 2}
                   ELSE {home - 1, home - 2, home - 3}
        path == IF kingside THEN {home, home + 1, home + 2}
                ELSE {home, home - 1, home - 2}
        right == IF c = White
                 THEN (IF kingside THEN WHITE_KINGS_CASTLE ELSE WHITE_QUEENS_CASTLE)
                 ELSE (IF kingside THEN BLACK_KINGS_CASTLE ELSE BLACK_QUEENS_CASTLE)
    IN  /\ mv.to \in {home + 2, home - 2}
        /\ between \cap occupied_squares(b) = {}
        /\ right \in b.flags
        /\ path \cap check_attack(b, inv(c)) = {}

\* C18: on every position set up from the initial one, for each color c,
\* every origin and every destination, is_legal(c, (from, to, Castle)) is
\* true exactly when the castle is allowed: own home rank, empty squares
\* between king and rook, right held, king path not attacked by the
\* opponent; the same rule for White and Black and for both wings.
C18_CastleLegalExactlyWhenAllowed ==
    \A c \in Color : \A from \in {4, 60} : \A to \in 0..63 :
        is_legal(board, c, Move(from, to, "Castle"))
            <=> castle_allowed(board, c, Move(from, to, "Castle"))


\* C19: a call of choose_move returns; it returns no move exactly when
\* moves(color) is empty on the board; a move it returns is one of
\* moves(color) and no root move has a smaller key (the opponent's search
\* value of the position the move leads to); and the caller's board is
\* still the board of the call.
C19_ChooseMoveReturnsBestRootMove ==
    search.pc = "done" =>
        /\ ~search.outcome.panicked
        /\ (search.outcome.value = None) <=> (moves(board, color) = <<>>)
        /\ search.outcome.value # None =>
               \E k \in 1..Len(search.moves) :
                   /\ search.moves[k] = search.outcome.value
                   /\ search.moves[k] \in Range(moves(board, color))
                   /\ \A j \in 1..Len(search.keys) :
                          search.keys[k].value <= search.keys[j].value
        /\ <<board, color>> \in BotCalls

\* The move mv of color c mates: after it the opponent has no move and the
\* opponent's king is attacked.
mates(b, c, mv) ==
    /\ moves(perform_move(b, mv), inv(c)) = <<>>
    /\ check_attack(perform_move(b, mv), c)
           \cap get_pieces(perform_move(b, mv), inv(c)).king # {}

\* C20: when one of moves(color) mates, the move choose_move returns mates.
C20_MateInOneIsChosen ==
    (/\ search.pc = "done"
     /\ \E mv \in Range(moves(board, color)) : mates(board, color, mv))
        => /\ ~search.outcome.panicked
           /\ search.outcome.value # None
           /\ mates(board, color, search.outcome.value)


\* C22: iterating a 64-bit word x ends after exactly popcount(x) items (at
\* most 64); every item is a mask of exactly one bit, set in x; the items
\* are pairwise distinct and their union is x; each item is the lowest set
\* bit of what remained before it, and what remains shrinks to 0.
yielded(k) == UNION {iter.items[j] : j \in 1..k}
C22_BitIteratorYieldsEachSetBitOnce ==
    /\ Len(iter.items) <= 64
    /\ iter.rest = iter.word \ yielded(Len(iter.items))
    /\ \A k \in 1..Len(iter.items) :
          LET before == iter.word \ yielded(k - 1)
          IN  /\ Cardinality(iter.items[k]) = 1
              /\ iter.items[k] \subseteq before
              /\ \A i \in iter.items[k] : \A j \in before : i <= j
    /\ \A j, k \in 1..Len(iter.items) :
          j # k => iter.items[j] # iter.items[k]
    /\ iter.finished =>
          /\ iter.rest = {}
          /\ Len(iter.items) = Cardinality(iter.word)
          /\ yielded(Len(iter.items)) = iter.word
          /\ BitIterator(iter.word)
               = [k \in 1..Len(iter.items) |->
                     CHOOSE i \in iter.items[k] : TRUE]
C22_Witness == iter.finished /\ iter.word = 0..63 /\ Len(iter.items) = 64


\* C23: is_legal(c, m) accepts a PawnLeap only if the square one step ahead
\* of m.from and the destination are both empty, and get_legal_move never
\* returns a two-square pawn push that jumps over an occupied square.
C23_LeapNeverJumpsOverAPiece ==
    \A c \in Color : \A from \in get_pieces(board, c).pawns :
        LET ahead == IF c = White THEN 8 ELSE -8
            to == from + 2 * ahead
            mv == Move(from, to, "PawnLeap")
        IN  to \in 0..63 =>
              /\ is_legal(board, c, mv) =>
                    {from + ahead, to} \cap occupied = {}
              /\ get_legal_move(board, c, from, to) = mv =>
                    from + ahead \notin occupied


\* The k-th square from `from` in direction j, if the board has one.
file_step(j) == CASE j \in {1, 5, 7} -> 1 [] j \in {2, 6, 8} -> -1
                  [] OTHER -> 0
rank_step(j) == CASE j \in {3, 5, 6} -> 1 [] j \in {4, 7, 8} -> -1
                  [] OTHER -> 0
on_board(from, j, k) ==
    /\ (from % 8) + k * file_step(j) \in 0..7
    /\ (from \div 8) + k * rank_step(j) \in 0..7
\* The squares of the ray from `from` in direction j up to and including
\* the first square of `blockers`.
walk(from, j, blockers) ==
    {from + k * ray_delta(j) : k \in
        {k \in 1..7 : /\ on_board(from, j, k)
                      /\ \A i \in 1..(k - 1) :
                            from + i * ray_delta(j) \notin blockers}}
\* What check_attack's flooding marks for the single ray of the slider on
\* `from` in direction j, and the rays each slider of c has.
opaque(c) == occupied \ get_pieces(board, inv(c)).king
one_ray(from, j) == [k \in Dirs |-> IF k = j THEN ray_shift(j, {from}) ELSE {}]
ray_attack(c, from, j) == attack_flood(one_ray(from, j), opaque(c), {})
rays_of(c) ==
    LET pieces == get_pieces(board, c)
    IN  {<<from, j>> \in (0..63) \X Dirs :
            from \in (IF j <= 4 THEN pieces.queens \cup pieces.rooks
                      ELSE pieces.queens \cup pieces.bishops)}
all_rays(c) ==
    LET pieces == get_pieces(board, c)
    IN  [j \in Dirs |-> ray_shift(j, IF j <= 4
                                     THEN pieces.queens \cup pieces.rooks
                                     ELSE pieces.queens \cup pieces.bishops)]

\* C24 as stated: in check_attack(c) a sliding ray of c marks the squares up
\* to and including the first one holding an opposing piece (the opposing
\* king is transparent) and stops before a square holding a piece of c,
\* which it does not mark; the flooding loop takes at most seven non-empty
\* steps.
C24_RayStopsBeforeOwnPiece ==
    \A c \in Color :
        /\ \A r \in rays_of(c) :
              ray_attack(c, r[1], r[2])
                 = walk(r[1], r[2], opaque(c)) \ get_pieces(board, c).all
        /\ flood_steps(all_rays(c), opaque(c)) <= 7

\* C24 amended: a sliding ray of c marks the squares up to and including the
\* first occupied one, whether it holds an opposing piece or a piece of c
\* (the opposing king is transparent); the flooding loop takes at most
\* seven non-empty steps and what it marks is the union of these rays.
C24_RayStopsOnFirstPiece ==
    \A c \in Color :
        /\ \A r \in rays_of(c) :
              ray_attack(c, r[1], r[2]) = walk(r[1], r[2], opaque(c))
        /\ flood_steps(all_rays(c), opaque(c)) <= 7
        /\ attack_flood(all_rays(c), opaque(c), {})
              = UNION {walk(r[1], r[2], opaque(c)) : r \in rays_of(c)}
        /\ UNION {walk(r[1], r[2], opaque(c)) : r \in rays_of(c)}
              \subseteq check_attack(board, c)
\* A ray of three or more squares ends on a piece of its own color, another
\* runs through the opposing king, and a third ends on an opposing piece.
C24_Witness ==
    \E c \in Color :
        /\ \E r \in rays_of(c) :
              /\ Cardinality(ray_attack(c, r[1], r[2])) >= 3
              /\ ray_attack(c, r[1], r[2]) \cap get_pieces(board, c).all # {}
        /\ \E r \in rays_of(c) :
              /\ get_pieces(board, inv(c)).king \subseteq ray_attack(c, r[1], r[2])
              /\ ray_attack(c, r[1], r[2]) \cap occupied
                    # get_pieces(board, inv(c)).king


\* The unpruned reference: a negamax of depth d over moves(c) with the
\* terminal values of eval_board_rec, and at depth 0 the unpruned
\* quiescence over the captures onto pos.
RefDepth == 2
maximum(S) == CHOOSE v \in S : \A w \in S : w <= v
RECURSIVE quiescence(_, _, _)
quiescence(b, pos, c) ==
    LET list == SelectSeq(capture_moves(b, c), LAMBDA mv : mv.to = pos)
    IN  IF list # <<>>
        THEN maximum({-quiescence(perform_move(b, list[k]), pos, inv(c)) :
                         k \in 1..Len(list)})
        ELSE IF check_attack(b, inv(c)) \cap get_pieces(b, c).king # {}
        THEN -i32_MAX
        ELSE IF c = White THEN guess_white_win(b) ELSE -guess_white_win(b)
RECURSIVE negamax(_, _, _)
negamax(b, c, d) ==
    LET list == moves(b, c)
    IN  IF d = 0 THEN quiescence(b, b.prev_move.to, c)
        ELSE IF list # <<>>
        THEN maximum({-negamax(perform_move(b, list[k]), inv(c), d - 1) :
                         k \in 1..Len(list)})
        ELSE IF check_attack(b, inv(c)) \cap get_pieces(b, c).king # {}
        THEN -i32_MAX
        ELSE 0

\* The call that made the innermost call of the search.
caller == search.stack[Len(search.stack) - 1]
\* The innermost call has finished, and it was eval_board_rec with the
\* window (-MAX, +MAX) and a depth of at most RefDepth.
shallow_full_window_call ==
    /\ Len(search.stack) >= 2
    /\ top.done
    /\ caller.depth \in 1..(RefDepth + 1)
    /\ caller.alpha = -i32_MAX
    /\ caller.beta = i32_MAX

\* C25: eval_board_rec(board, color, d, -MAX, +MAX) returns the value of the
\* unpruned negamax of depth d: every such call made for a root move
\* returns, and every such call of depth at most RefDepth returns the value
\* of the reference.
C25_AlphaBetaReturnsNegamaxValue ==
    /\ \A k \in 1..Len(search.keys) : ~search.keys[k].panicked
    /\ shallow_full_window_call =>
          top.result
             = Returned(negamax(perform_move(caller.board,
                                             caller.moves[caller.next]),
                                inv(caller.color), caller.depth - 1))


\* The static evaluation as the claim words it, from the side of White.
material(pieces) ==
    1 * Cardinality(pieces.pawns) + 3 * Cardinality(pieces.knights)
      + 3 * Cardinality(pieces.bishops) + 5 * Cardinality(pieces.rooks)
      + 9 * Cardinality(pieces.queens)
static_value(b, c) ==
    LET white_win == 100 * (material(b.white_pieces) - material(b.black_pieces))
    IN  IF c = White THEN white_win ELSE -white_win
captures_onto(b, c, pos) ==
    {mv \in Range(capture_moves(b, c)) : mv.to = pos}
\* The call the innermost loop is about to make is a quiescence node: its
\* board, its square pos (the call made at depth 1 is eval_board_rec with
\* depth 0, which takes the destination of the last move).
calls_quiescence ==
    search.stack # <<>> /\ ~top.done /\ top.depth <= 1
next_board == perform_move(top.board, top.moves[top.next])
next_pos == IF top.depth = 0 THEN top.pos ELSE top.moves[top.next].to

\* C26: a quiescence node considers exactly the moves of capture_moves(c)
\* whose destination is pos, the destination of the last move made before
\* the horizon, the same through the whole quiescence recursion; when there
\* is none it returns the static evaluation, 100 x (value(white) -
\* value(black)) negated for Black, if c's king is not attacked, and -MAX
\* if it is.
C26_QuiescenceOnlyRecaptures ==
    /\ \A i \in 1..Len(search.stack) :
          LET f == search.stack[i]
          IN  (~f.done /\ f.depth = 0) =>
                /\ Range(f.moves) = captures_onto(f.board, f.color, f.pos)
                /\ f.moves # <<>>
                /\ f.pos = f.board.prev_move.to
                /\ i > 1
                /\ search.stack[i - 1].depth \in {0, 1}
                /\ search.stack[i - 1].depth = 0 =>
                      f.pos = search.stack[i - 1].pos
                /\ search.stack[i - 1].depth = 1 =>
                      f.pos = search.stack[i - 1].moves[search.stack[i - 1].next].to
    /\ (/\ calls_quiescence
        /\ captures_onto(next_board, inv(top.color), next_pos) = {}) =>
          loop_call(top)
            = Finished(Returned(
                IF check_attack(next_board, top.color)
                      \cap get_pieces(next_board, inv(top.color)).king = {}
                THEN static_value(next_board, inv(top.color))
                ELSE -i32_MAX))
\* A quiescence node that has a capture onto pos is about to call one that
\* has none.
C26_Witness ==
    /\ calls_quiescence
    /\ top.depth = 0
    /\ captures_onto(next_board, inv(top.color), next_pos) = {}
    /\ loop_call(top).done


\* The number of pieces on the board of a call.
piece_count(b) == Cardinality(b.white_pieces.all \cup b.black_pieces.all)
\* Along the calls under way the depth goes down by one per call until it
\* is 0, and from there on every call has one piece less than its caller.
recursion_is_bounded ==
    /\ \A i \in 2..Len(search.stack) :
          LET f == search.stack[i]
              g == search.stack[i - 1]
          IN  ~f.done =>
                /\ g.depth > 0 => f.depth = g.depth - 1
                /\ g.depth = 0 =>
                      /\ f.depth = 0
                      /\ piece_count(f.board) < piece_count(g.board)
    /\ \A i \in 1..Len(search.stack) :
          (~search.stack[i].done /\ search.stack[i].depth = 0) =>
              search.stack[i].pos
                 \in get_pieces(search.stack[i].board,
                                inv(search.stack[i].color)).all
    /\ Len(search.stack) <= DEPTH + 1 + piece_count(board)

\* C27: the search terminates: the recursion of eval_board_rec goes down to
\* depth 0, every further call of eval_captures_board_rec follows a capture
\* onto the occupied square pos and has fewer pieces, and choose_move
\* eventually returns.
C27_ChooseMoveEventuallyReturns ==
    /\ []recursion_is_bounded
    /\ <>(search.pc = "done" /\ ~search.outcome.panicked)


\* The field of Pieces a move kind takes its piece from.
kind_field(ty) ==
    CASE ty \in {"King", "Castle"} -> "king"
      [] ty = "Queen" -> "queens"
      [] ty = "Rook" -> "rooks"
      [] ty = "Bishop" -> "bishops"
      [] ty = "Knight" -> "knights"
      [] OTHER -> "pawns"
\* from and to lie on one rank, file or diagonal and the squares strictly
\* between them are empty.
clear_line(from, to) ==
    \E j \in Dirs : \E k \in 1..7 :
        /\ on_board(from, j, k)
        /\ to = from + k * ray_delta(j)
        /\ \A i \in 1..(k - 1) : from + i * ray_delta(j) \notin occupied
well_formed(c, mv) ==
    /\ mv.from \in get_pieces(board, c)[kind_field(mv.ty)]
    /\ mv.to \notin get_pieces(board, c).all
    /\ mv.ty \in {"Queen", "Rook", "Bishop"} => clear_line(mv.from, mv.to)

\* C28: in every position and for each color c, to move or not, every move
\* of moves(c) and of capture_moves(c) has on its origin a piece of c of the
\* kind the move names, has no piece of c on its destination, and, for a
\* Queen, Rook or Bishop move, runs along a rank, file or diagonal over
\* empty squares only.
C28_GeneratedMovesAreWellFormed ==
    \A c \in Color :
        \A mv \in Range(moves(board, c)) \cup Range(capture_moves(board, c)) :
            well_formed(c, mv)


\* The King moves of the side to move to a neighbouring square that holds
\* no piece of its own.
king_square == CHOOSE s \in get_pieces(board, color).king : TRUE
king_step_moves ==
    {Move(king_square, t, "King") :
        t \in king_steps(get_pieces(board, color).king)
                 \ get_pieces(board, color).all}
safe_after(mv) ==
    mv.to \notin check_attack(perform_move(board, mv), inv(color))

\* C29: for the side to move, a King move to a neighbouring square not held
\* by an own piece is in moves(c) exactly when, after the move is applied
\* on a copy, its destination is not attacked by the opponent, for quiet
\* steps and for captures alike.
C29_KingFilterMatchesRecheck ==
    \A mv \in king_step_moves :
        mv \in Range(moves(board, color)) <=> safe_after(mv)
\* The king stands next to a defended piece of the opponent, whose capture
\* is not generated, and next to an attacked empty square, the step onto
\* which is not generated; another King move is.
C29_Witness ==
    /\ \E mv \in king_step_moves : mv \in Range(moves(board, color))
    /\ \E mv \in king_step_moves :
          mv.to \in occupied /\ mv \notin Range(moves(board, color))
    /\ \E mv \in king_step_moves :
          mv.to \notin occupied /\ mv \notin Range(moves(board, color))


\* C30: during choose_move neither unreachable!() of eval_move is executed:
\* no sort of the search panics, so no call of eval_board_rec or
\* eval_captures_board_rec under way has unwound, no root move has a panic
\* for its key, and the call does not end in a panic.
C30_EvalMoveNeverReachesUnreachable ==
    /\ ~search.outcome.panicked
    /\ \A k \in 1..Len(search.keys) : ~search.keys[k].panicked
    /\ \A i \in 1..Len(search.stack) :
          search.stack[i].done => ~search.stack[i].result.panicked


\* The root moves a worker can take a step on, and the call as the search
\* of root move k alone sees it: every other root move still waiting.
steppable(s) ==
    IF s.pc # "search" THEN {}
    ELSE under_way(s)
         \cup (IF Cardinality(under_way(s)) < Workers THEN waiting(s) ELSE {})
alone(s, k) ==
    [s EXCEPT !.stack = [j \in 1..Len(s.moves) |->
                            IF j = k THEN s.stack[k] ELSE <<>>],
              !.keys = [j \in 1..Len(s.moves) |->
                            IF j = k THEN s.keys[k] ELSE Pending]]

\* C21: the root search is free of races and deterministic: a step of the
\* search of one root move changes nothing of the search of another, it
\* is the step that search takes when it runs alone, and two steps of
\* different root moves give the same state in either order; so the key of
\* each root move is the same under every interleaving of the workers.
C21_RootSearchesAreIndependent ==
    \A k \in steppable(search) :
        LET after == job_step(search, board, color, k)
            by_itself == job_step(alone(search, k), board, color, k)
        IN  /\ after.stack[k] = by_itself.stack[k]
            /\ after.keys[k] = by_itself.keys[k]
            /\ \A j \in 1..Len(search.moves) \ {k} :
                  /\ after.stack[j] = search.stack[j]
                  /\ after.keys[j] = search.keys[j]
                  /\ j \in steppable(search) =>
                        job_step(after, board, color, j)
                          = job_step(job_step(search, board, color, j),
                                     board, color, k)
\* Two searches are under way, each with calls of its own in progress, and
\* another root move already has its key.
C21_Witness ==
    /\ search.pc = "search"
    /\ \E k \in 1..Len(search.moves) : search.keys[k] # Pending
    /\ \E j, k \in under_way(search) :
          j # k /\ Len(search.stack[j]) >= 2 /\ Len(search.stack[k]) >= 2

====
